---------------------------- MODULE Spec2Model ----------------------------
(***************************************************************************)
(* Model of pygame_menu/_widgetmanager.py (class WidgetManager): the       *)
(* attribute resolver (_filter_widget_attributes), the closed-set check    *)
(* (_check_kwargs), the binder (_configure_widget), the registration step  *)
(* (_append_widget) and the widget factories (button, color_input, image,  *)
(* label, selector, toggle_switch, text_input, vertical_margin,            *)
(* none_widget, generic_widget).                                           *)
(*                                                                         *)
(* Seven specifications share the variables:                               *)
(*   Spec          a caller builds one menu with every factory;            *)
(*   SpecMenus     callers add buttons to several menus, linking them;     *)
(*   SpecBinding   a caller hands its own widgets to two menus;            *)
(*   SpecLabel     a caller adds labels whose titles hold line breaks;     *)
(*   SpecThemed    images, margins and switches under any of the themes;   *)
(*   SpecAppend    _append_widget statement by statement, with a select    *)
(*                 callback that may register a widget of its own;         *)
(*   SpecResolver  one call of the attribute resolver on a caller's        *)
(*                 optional-parameter mapping, followed by _check_kwargs.  *)
(***************************************************************************)
EXTENDS Integers, Sequences, FiniteSets, TLC

VARIABLES
    theme,       \* the Theme of the menus (Menu.get_theme())
    kwargs0,     \* resolver call: the mapping as the caller supplied it
    kwargs,      \* resolver call: the mapping object, mutated in place
    attributes,  \* resolver call: the returned bundle (BlankBundle if none)
    rstate,      \* resolver call: "init", "returned", "raised", "checked", "rejected"
    rerr,        \* resolver call: the key named by the raised error ("" if none)
    menus,       \* menu -> [_widgets, _index, added_widgets, _widgets_surface, _submenus]
    heap,        \* the Widget objects alive, by handle 1..Len(heap)
    last,        \* the last factory call: what was called and how it ended
    frames,      \* the activations of _append_widget in progress, outermost first
    renders      \* the calls of Menu._render() made by _append_widget

vars == <<theme, kwargs0, kwargs, attributes, rstate, rerr, menus, heap, last,
          frames, renders>>

-----------------------------------------------------------------------------
(* Bounds of the model *)

\* keys in a caller's optional-parameter mapping (SpecResolver)
MaxKwargs == 2
\* Widget objects alive when a call that builds widgets is made (one call
\* more may build several)
MaxWidgets == 2
\* entries of the menus' _submenus lists, all together
MaxSubmenus == 2

-----------------------------------------------------------------------------
(* Python values.  A value is [t |-> type name, v |-> payload], the        *)
(* payload a tuple of integers, so that any two values can be compared.    *)

NoneV == [t |-> "NoneType", v |-> <<>>]
Str(c) == [t |-> "str", v |-> <<c>>]
PathV(c) == [t |-> "Path", v |-> <<c>>]
IntV(n) == [t |-> "int", v |-> <<n>>]
FloatV(n) == [t |-> "float", v |-> <<n>>]
BoolV(b) == [t |-> "bool", v |-> <<IF b THEN 1 ELSE 0>>]
Tup(s) == [t |-> "tuple", v |-> s]
Lst(s) == [t |-> "list", v |-> s]
BaseImage(n) == [t |-> "BaseImage", v |-> <<n>>]
Selection(n) == [t |-> "Selection", v |-> <<n>>]
\* pygame_menu.widgets.NoneSelection(): a Selection that draws nothing
NoneSelection == [t |-> "Selection", v |-> <<0>>]

\* isinstance(x, int): bool is a subclass of int
IsInt(x) == x.t \in {"int", "bool"}
\* isinstance(x, (int, float))
IsNumber(x) == x.t \in {"int", "bool", "float"}
IsStr(x) == x.t = "str"

\* str(x) of a str or a Path
ToStr(x) == [t |-> "str", v |-> x.v]

\* _utils.assert_color: a tuple or list of 3 or 4 integers in 0..255
IsColor(x) ==
    /\ x.t \in {"tuple", "list"}
    /\ Len(x.v) \in {3, 4}
    /\ \A i \in 1..Len(x.v) : x.v[i] >= 0 /\ x.v[i] <= 255

\* _utils.assert_vector(x, n): a tuple or list of n numbers
IsVector(x, n) == x.t \in {"tuple", "list"} /\ Len(x.v) = n

-----------------------------------------------------------------------------
(* The optional-parameter mapping: a Python dict, kept as the sequence of  *)
(* its <<key, value>> items in insertion order, keys distinct.             *)

Keys(kw) == {kw[i][1] : i \in 1..Len(kw)}
HasKey(kw, k) == k \in Keys(kw)
Get(kw, k) == kw[CHOOSE i \in 1..Len(kw) : kw[i][1] = k][2]
\* dict.get(k, default) / the value dict.pop(k, default) returns
GetOr(kw, k, default) == IF HasKey(kw, k) THEN Get(kw, k) ELSE default
\* the dict after dict.pop(k, default)
Pop(kw, k) == SelectSeq(kw, LAMBDA item : item[1] # k)
\* mutant of PopAll: the keys are read (dict.get) and not removed
ReadAll(kw, ks) == kw

\* the dict after popping every key of the set ks
PopAll(kw, ks) == SelectSeq(kw, LAMBDA item : item[1] \notin ks)

-----------------------------------------------------------------------------
(* Theme: the read-only record of default styling values.                  *)

\* the fields of a Theme that WidgetManager reads
Theme(bg, wbg, fbg, fromMenu, effect) ==
    [ background_color |-> bg,
      widget_alignment |-> Str(1),
      widget_background_color |-> wbg,
      widget_background_inflate |-> Tup(<<0, 0>>),
      widget_border_color |-> Tup(<<0, 0, 0>>),
      widget_border_inflate |-> Tup(<<0, 0>>),
      widget_border_width |-> IntV(0),
      widget_font |-> Str(10),
      widget_font_antialias |-> BoolV(TRUE),
      widget_font_background_color |-> fbg,
      widget_font_background_color_from_menu |-> fromMenu,
      widget_font_color |-> Tup(<<70, 70, 70>>),
      widget_font_size |-> IntV(30),
      widget_margin |-> Tup(<<0, 10>>),
      widget_padding |-> Tup(<<4, 8>>),
      readonly_color |-> Tup(<<120, 120, 120>>),
      readonly_selected_color |-> Tup(<<190, 190, 190>>),
      selection_color |-> Tup(<<255, 255, 255>>),
      widget_selection_effect |-> effect,
      widget_shadow |-> BoolV(FALSE),
      widget_shadow_color |-> Tup(<<0, 0, 0>>),
      widget_shadow_position |-> Str(20),
      widget_shadow_offset |-> IntV(2) ]

\* the default theme: no widget background, highlight selection effect
THEME_DEFAULT ==
    Theme(Tup(<<220, 220, 220>>), NoneV, NoneV, FALSE, Selection(1))

\* the themes a menu may be built with
Themes ==
    { THEME_DEFAULT,
      \* font background derived from the menu's flat background colour
      Theme(Tup(<<40, 41, 35>>), NoneV, NoneV, TRUE, Selection(1)),
      \* the same, the widgets having a flat background of their own
      Theme(Tup(<<40, 41, 35>>), Tup(<<9, 9, 9>>), NoneV, TRUE, Selection(1)),
      \* the menu's background is an image; an explicit font background
      Theme(BaseImage(1), NoneV, Tup(<<1, 2, 3>>), TRUE, Selection(1)),
      \* a flat menu background; an explicit font background
      Theme(Tup(<<40, 41, 35>>), NoneV, Tup(<<1, 2, 3>>), TRUE, Selection(1)) }

-----------------------------------------------------------------------------
(* _filter_widget_attributes: the attribute resolver.                      *)

\* the keys of the returned bundle (attributes[...] = ...), in code order
AttributeKeys ==
    << "align", "background_color", "background_inflate", "border_color",
       "border_inflate", "border_width", "font_antialias",
       "font_background_color", "font_color", "font_name", "font_size",
       "margin", "padding", "readonly_color", "readonly_selected_color",
       "selection_color", "selection_effect", "shadow", "shadow_color",
       "shadow_position", "shadow_offset" >>

\* the keys the resolver pops from the mapping (kwargs.pop(...)), in code order
PopOrder ==
    SelectSeq(AttributeKeys, LAMBDA k : k # "font_antialias")

\* the Theme value that is the second argument of kwargs.pop(key, ...)
ThemeDefault(th, key) ==
    CASE key = "align" -> th.widget_alignment
      [] key = "background_color" -> th.widget_background_color
      [] key = "background_inflate" -> th.widget_background_inflate
      [] key = "border_color" -> th.widget_border_color
      [] key = "border_inflate" -> th.widget_border_inflate
      [] key = "border_width" -> th.widget_border_width
      [] key = "font_antialias" -> th.widget_font_antialias
      [] key = "font_background_color" -> th.widget_font_background_color
      [] key = "font_color" -> th.widget_font_color
      [] key = "font_name" -> th.widget_font
      [] key = "font_size" -> th.widget_font_size
      [] key = "margin" -> th.widget_margin
      [] key = "padding" -> th.widget_padding
      [] key = "readonly_color" -> th.readonly_color
      [] key = "readonly_selected_color" -> th.readonly_selected_color
      [] key = "selection_color" -> th.selection_color
      [] key = "selection_effect" -> th.widget_selection_effect
      [] key = "shadow" -> th.widget_shadow
      [] key = "shadow_color" -> th.widget_shadow_color
      [] key = "shadow_position" -> th.widget_shadow_position
      [] key = "shadow_offset" -> th.widget_shadow_offset

\* mutant of Popped: the caller's value is ignored
PoppedThemeOnly(th, kw, key) == ThemeDefault(th, key)

\* the value kwargs.pop(key, <theme default>) returns
Popped(th, kw, key) == GetOr(kw, key, ThemeDefault(th, key))

\* mutant of BackgroundIsColor: the flag is never set
BackgroundNeverColor(th, kw) == FALSE

\* background_is_color after lines 87-94
BackgroundIsColor(th, kw) ==
    LET background_color == Popped(th, kw, "background_color")
    IN  background_color # NoneV /\ background_color.t # "BaseImage"

\* mutant of MarginAccepted: the length of the tuple is not asserted
MarginAcceptedAnyLength(x) == x.t = "tuple"

\* the assertions on margin: isinstance(margin, tuple), len(margin) == 2
MarginAccepted(x) == x.t = "tuple" /\ Len(x.v) = 2

\* the assertions the resolver makes on the value x popped for a key
KeyAccepted(th, kw, key, x) ==
    CASE key = "align" -> IsStr(x)
      [] key = "background_color" ->
            x = NoneV \/ x.t = "BaseImage" \/ IsColor(x)
      [] key = "background_inflate" ->
            IsVector(x, 2) /\ x.v[1] >= 0 /\ x.v[2] >= 0
      [] key = "border_color" -> IsColor(x)
      [] key = "border_inflate" ->
            IsVector(x, 2) /\ x.v[1] >= 0 /\ x.v[2] >= 0
      [] key = "border_width" -> IsInt(x) /\ x.v[1] >= 0
      [] key = "font_background_color" ->
            \* only the colour copied from the menu is asserted
            (x = NoneV /\ th.widget_font_background_color_from_menu
                /\ ~BackgroundIsColor(th, kw) /\ th.background_color.t = "tuple")
            => IsColor(th.background_color)
      [] key = "font_color" -> IsColor(x)
      [] key = "font_name" -> x.t \in {"str", "Path"}
      [] key = "font_size" -> IsInt(x) /\ x.v[1] > 0
      [] key = "margin" -> MarginAccepted(x)
      [] key = "padding" -> x.t \in {"int", "bool", "float", "tuple"}
      [] key = "readonly_color" -> IsColor(x)
      [] key = "readonly_selected_color" -> IsColor(x)
      [] key = "selection_color" -> IsColor(x)
      [] key = "selection_effect" -> x = NoneV \/ x.t = "Selection"
      [] key = "shadow" -> x.t = "bool"
      [] key = "shadow_color" -> IsColor(x)
      [] key = "shadow_position" -> IsStr(x)
      [] key = "shadow_offset" -> IsNumber(x)

\* the value stored in attributes[key]
Resolved(th, kw, key) ==
    LET x == Popped(th, kw, key)
    IN  CASE key = "font_antialias" -> th.widget_font_antialias
          [] key = "font_background_color" ->
                IF /\ x = NoneV
                   /\ th.widget_font_background_color_from_menu
                   /\ ~BackgroundIsColor(th, kw)
                   /\ th.background_color.t = "tuple"
                THEN th.background_color
                ELSE x
          [] key = "font_name" -> ToStr(x)
          [] key = "selection_effect" -> IF x = NoneV THEN NoneSelection ELSE x
          [] OTHER -> x

\* a bundle nobody resolved
BlankBundle == [k \in {AttributeKeys[i] : i \in 1..Len(AttributeKeys)} |-> NoneV]

\* The call _filter_widget_attributes(kwargs) under Theme th:
\*   raised      an assertion failed
\*   err         the key whose assertion failed ("" if none)
\*   attributes  the returned bundle
\*   kwargs      the mapping after the call: every key popped before the
\*               failure (or all of them) removed
FilterWidgetAttributes(th, kw) ==
    LET bad == {i \in 1..Len(PopOrder) :
                    ~KeyAccepted(th, kw, PopOrder[i], Popped(th, kw, PopOrder[i]))}
        first == CHOOSE i \in bad : \A j \in bad : i <= j
    IN  IF bad = {}
        THEN [ raised |-> FALSE, err |-> "",
               attributes |-> [k \in DOMAIN BlankBundle |-> Resolved(th, kw, k)],
               kwargs |-> PopAll(kw, {PopOrder[i] : i \in 1..Len(PopOrder)}) ]
        ELSE [ raised |-> TRUE, err |-> PopOrder[first],
               attributes |-> BlankBundle,
               kwargs |-> PopAll(kw, {PopOrder[i] : i \in 1..first}) ]

\* mutant of CheckKwargs: every mapping is accepted
CheckKwargsAccept(kw) == [raised |-> FALSE, err |-> ""]

\* _check_kwargs(kwargs): ValueError naming the first key of a non-empty mapping
CheckKwargs(kw) ==
    IF Len(kw) = 0
    THEN [raised |-> FALSE, err |-> ""]
    ELSE [raised |-> TRUE, err |-> kw[1][1]]

-----------------------------------------------------------------------------
(* The containers (pygame_menu.Menu) and the Widget objects.               *)

\* the menus of the application
Menus == {1, 2, 3}

\* a Menu as its constructor leaves it (the fields WidgetManager touches)
NewMenu ==
    [ _widgets |-> <<>>,          \* handles of the widgets, in insertion order
      _index |-> -1,              \* selected widget index (0-based), -1 if none
      added_widgets |-> 0,        \* _stats.added_widgets
      _widgets_surface |-> "None",
      _submenus |-> <<>> ]

\* a Widget as its constructor leaves it; menu 0 is None
NewWidget(id, selectable, to_menu) ==
    [ id |-> id, menu |-> 0, is_selectable |-> selectable,
      selected |-> FALSE, to_menu |-> to_menu, styled |-> FALSE,
      controls |-> FALSE ]

\* widget IDs are strings, kept as tuples of integers: <<b>> is the base
\* string number b, and Append(id, n) is id + '+' + str(n)
DerivedId(id, n) == Append(id, n)

\* the IDs used by the widgets of menu m
MenuIds(M, H, m) ==
    {H[M[m]._widgets[i]].id : i \in 1..Len(M[m]._widgets)}

\* str(uuid4()): a string no widget has as its ID or as the base of its ID
uuid4(H) ==
    LET used == {H[h].id[1] : h \in 1..Len(H)}
    IN  <<CHOOSE n \in 100..(100 + Len(H)) : n \notin used>>

\* Menu._check_id_duplicated(widget_id) raises
IdDuplicated(M, H, m, id) == id \in MenuIds(M, H, m)

\* the menus reachable from menu a through _submenus in at most n steps
Reach(M, a, n) ==
    LET step[k \in 0..n] ==
            IF k = 0 THEN {a}
            ELSE step[k - 1] \cup
                 UNION {{M[x]._submenus[i] : i \in 1..Len(M[x]._submenus)} :
                            x \in step[k - 1]}
    IN  step[n]

\* Menu.in_submenu(menu, recursive=True) called on menu a
InSubmenu(M, a, menu) ==
    \E x \in Reach(M, a, Cardinality(Menus)) :
        \E i \in 1..Len(M[x]._submenus) : M[x]._submenus[i] = menu

\* The result of a step of a factory: the menus and the heap after it, whether
\* it raised, at which step, the key its error message names (if any), the
\* handles it returns with the title each of these widgets was constructed
\* with (texts), the bundle applied to the widget built and the mapping
\* forwarded with it.
RaiseKey(M, H, step, err) ==
    [menus |-> M, heap |-> H, raised |-> TRUE, step |-> step, err |-> err,
     ret |-> <<>>, texts |-> <<>>, attributes |-> BlankBundle, fwd |-> <<>>,
     default |-> NoneV, warned |-> FALSE, nest |-> 0, depth |-> 1]
Raise(M, H, step) == RaiseKey(M, H, step, "")
Return(M, H, ret) ==
    [menus |-> M, heap |-> H, raised |-> FALSE, step |-> "none", err |-> "",
     ret |-> ret, texts |-> [i \in 1..Len(ret) |-> <<>>],
     attributes |-> BlankBundle, fwd |-> <<>>, default |-> NoneV,
     warned |-> FALSE, nest |-> 0, depth |-> 1]

\* the result res of a factory's tail, with what the factory gave the widget
\* it built: the bundle it applied (attributes) and the mapping it forwarded
\* to the constructor or the action (**kwargs)
Built(res, bundle, fwd) ==
    IF res.raised THEN res
    ELSE [res EXCEPT !.attributes = bundle, !.fwd = fwd]

\* the result res of the rest of a call that has emitted a warning or not
Warned(res, warned) == [res EXCEPT !.warned = warned]

\* the result res of a factory's tail, with the value the factory gave the
\* widget as its default: widget.set_default_value(default)
WithDefault(res, default) ==
    IF res.raised THEN res ELSE [res EXCEPT !.default = default]

\* mutant of ConfigureWidget: the styles are applied before the ID check
ConfigureWidgetStyleFirst(M, H, m, w) ==
    IF w.menu # 0
    THEN [raised |-> TRUE, widget |-> w]
    ELSE [raised |-> IdDuplicated(M, H, m, w.id),
          widget |-> [w EXCEPT !.menu = m, !.styled = TRUE,
                               !.controls = TRUE]]

\* _configure_widget(widget, **attributes) on the Widget record w:
\* the record after the call and whether the call raised
ConfigureWidget(M, H, m, w) ==
    IF w.menu # 0
    THEN [raised |-> TRUE, widget |-> w]
    ELSE LET bound == [w EXCEPT !.menu = m]
         IN  IF IdDuplicated(M, H, m, w.id)
             THEN [raised |-> TRUE, widget |-> bound]
             ELSE [raised |-> FALSE,
                   widget |-> [bound EXCEPT !.styled = TRUE, !.controls = TRUE]]

\* mutant of AppendWidget: a widget appended while nothing is selected is
\* selected, selectable or not
AppendWidgetAnyWidget(M, H, m, h) ==
    LET sel == M[m]._index < 0
    IN  [ menus |-> [M EXCEPT ![m]._widgets = Append(@, h),
                              ![m]._index = IF sel THEN Len(M[m]._widgets) ELSE @,
                              ![m].added_widgets = @ + 1,
                              ![m]._widgets_surface = "None"],
          heap |-> [H EXCEPT ![h].selected = IF sel THEN TRUE ELSE @] ]

\* mutant of AppendWidget: every selectable widget appended is selected
AppendWidgetSelectAlways(M, H, m, h) ==
    LET sel == H[h].is_selectable
    IN  [ menus |-> [M EXCEPT ![m]._widgets = Append(@, h),
                              ![m]._index = IF sel THEN Len(M[m]._widgets) ELSE @,
                              ![m].added_widgets = @ + 1,
                              ![m]._widgets_surface = "None"],
          heap |-> [H EXCEPT ![h].selected = sel] ]

\* _append_widget(widget) on the widget with handle h, already bound to m
AppendWidget(M, H, m, h) ==
    LET sel == M[m]._index < 0 /\ H[h].is_selectable
    IN  [ menus |-> [M EXCEPT ![m]._widgets = Append(@, h),
                              ![m]._index = IF sel THEN Len(M[m]._widgets) ELSE @,
                              ![m].added_widgets = @ + 1,
                              ![m]._widgets_surface = "None"],
          heap |-> [H EXCEPT ![h].selected = IF sel THEN TRUE ELSE @] ]

\* mutant of ConfigureAndAppend: the widget is registered before its default
\* value is set
ConfigureAndAppendEarly(M, H, m, w, default_ok) ==
    LET c == ConfigureWidget(M, H, m, w)
        a == AppendWidget(M, Append(H, c.widget), m, Len(H) + 1)
    IN  IF c.raised THEN Raise(M, H, "bind")
        ELSE IF ~default_ok THEN Raise(a.menus, a.heap, "default")
        ELSE Return(a.menus, a.heap, <<Len(H) + 1>>)

\* the common tail of the factories, on a freshly constructed Widget w:
\*   self._configure_widget(widget=widget, **attributes)
\*   widget.set_default_value(default)      (raises iff ~default_ok)
\*   self._append_widget(widget)
ConfigureAndAppend(M, H, m, w, default_ok) ==
    LET c == ConfigureWidget(M, H, m, w)
        a == AppendWidget(M, Append(H, c.widget), m, Len(H) + 1)
    IN  IF c.raised THEN Raise(M, H, "bind")
        ELSE IF ~default_ok THEN Raise(M, H, "default")
        ELSE Return(a.menus, a.heap, <<Len(H) + 1>>)

-----------------------------------------------------------------------------
(* The factories.  Each is the whole method: the result holds the menus    *)
(* and the heap as the call leaves them, also when it raises midway.       *)

\* mutant of Recursive: only the menu itself is refused
RecursiveSelfOnly(M, m, action) == action.m = m

\* button(): action == self._menu or action.in_submenu(self._menu, recursive=True)
Recursive(M, m, action) == action.m = m \/ InSubmenu(M, action.m, m)

\* button(title, action, **kwargs); action is [t, m]: t = "Menu" (the menu
\* m), "event" (BACK, CLOSE, EXIT, NONE, RESET), "callable", or "other"
Button(th, M, H, m, action, button_id, back_count, accept_kwargs, kw) ==
    LET r == FilterWidgetAttributes(th, kw)
        linked == [M EXCEPT ![m]._submenus = Append(@, action.m)]
        tail(M1, to_menu) ==
            IF ~accept_kwargs /\ CheckKwargs(r.kwargs).raised
            THEN RaiseKey(M1, H, "kwargs", CheckKwargs(r.kwargs).err)
            ELSE Built(ConfigureAndAppend(M1, H, m,
                                          NewWidget(button_id, TRUE, to_menu), TRUE),
                       r.attributes,
                       \* Button(title, button_id, action, *args, **kwargs)
                       IF action.t = "callable" /\ accept_kwargs
                       THEN r.kwargs ELSE <<>>)
    IN  IF ~(IsInt(back_count) /\ 1 <= back_count.v[1]) THEN Raise(M, H, "extract")
        ELSE IF r.raised THEN RaiseKey(M, H, "resolve", r.err)
        ELSE IF action.t = "Menu"
        THEN IF Recursive(M, m, action)
             THEN Raise(M, H, "cycle")
             ELSE tail(linked, TRUE)
        ELSE IF action.t \in {"event", "callable"} THEN tail(M, FALSE)
        ELSE Raise(M, H, "action")

\* the keys color_input() takes out of kwargs for the constructor's own
\* parameters
ColorInputKeys ==
    { "dynamic_width", "input_underline_vmargin", "previsualization_margin",
      "previsualization_width" }

\* color_input(title, color_type, color_id, default, **kwargs);
\* construct_ok: the ColorInput constructor accepts its arguments;
\* default_ok: set_default_value accepts the default
ColorInput(th, M, H, m, color_id, default, construct_ok, default_ok, kw) ==
    LET r == FilterWidgetAttributes(th, kw)
    IN  IF default.t \notin {"str", "tuple"} THEN Raise(M, H, "extract")
        ELSE IF r.raised THEN RaiseKey(M, H, "resolve", r.err)
        ELSE IF ~construct_ok THEN Raise(M, H, "construct")
        ELSE WithDefault(
                 Built(ConfigureAndAppend(M, H, m, NewWidget(color_id, TRUE, FALSE),
                                          default_ok),
                       r.attributes, PopAll(r.kwargs, ColorInputKeys)),
                 default)

\* mutant of ImageInvalidKeys: the shadow keys are not removed
ImageInvalidKeysNoShadow ==
    { "font_background_color", "font_color", "font_name", "font_size" }

\* the keys image() removes before resolution
ImageInvalidKeys ==
    { "font_background_color", "font_color", "font_name", "font_size",
      "shadow", "shadow_color", "shadow_position", "shadow_offset" }

\* image(image_path, image_id, selectable, **kwargs);
\* construct_ok: the Image constructor accepts image_path, angle and scale
Image(th, M, H, m, image_id, selectable, construct_ok, kw) ==
    LET r == FilterWidgetAttributes(th, PopAll(kw, ImageInvalidKeys))
    IN  IF r.raised THEN RaiseKey(M, H, "resolve", r.err)
        ELSE IF ~construct_ok THEN Raise(M, H, "construct")
        ELSE IF CheckKwargs(r.kwargs).raised
        THEN RaiseKey(M, H, "kwargs", CheckKwargs(r.kwargs).err)
        ELSE Built(ConfigureAndAppend(M, H, m,
                                      NewWidget(image_id, selectable, FALSE), TRUE),
                   r.attributes, <<>>)

\* selector(title, items, default, selector_id, **kwargs);
\* construct_ok: the Selector constructor accepts items and default
Selector(th, M, H, m, selector_id, construct_ok, kw) ==
    LET r == FilterWidgetAttributes(th, kw)
    IN  IF r.raised THEN RaiseKey(M, H, "resolve", r.err)
        ELSE IF ~construct_ok THEN Raise(M, H, "construct")
        ELSE Built(ConfigureAndAppend(M, H, m, NewWidget(selector_id, TRUE, FALSE),
                                      TRUE),
                   r.attributes, r.kwargs)

\* the keys toggle_switch() takes out of kwargs for the constructor's own
\* parameters
ToggleSwitchKeys ==
    { "infinite", "slider_color", "slider_thickness", "state_color",
      "state_text_font_color", "state_text_font_size", "switch_border_color",
      "switch_border_width", "switch_height", "switch_margin", "width" }

\* mutant of TextInputKeys: input_underline_vmargin is read and left in kwargs
TextInputKeysNone == {}

\* the keys text_input() takes out of kwargs for the constructor's own
\* parameters
TextInputKeys == { "input_underline_vmargin" }

\* mutant of ToggleSwitch: the range of an integer default is not asserted
ToggleSwitchAnyInt(th, M, H, m, toggleswitch_id, default, kw) ==
    LET r == FilterWidgetAttributes(th, kw)
    IN  IF ~IsInt(default) THEN Raise(M, H, "extract")
        ELSE IF r.raised THEN RaiseKey(M, H, "resolve", r.err)
        ELSE WithDefault(
                 Built(ConfigureAndAppend(M, H, m,
                                          NewWidget(toggleswitch_id, TRUE, FALSE), TRUE),
                       r.attributes, PopAll(r.kwargs, ToggleSwitchKeys)),
                 default)

\* toggle_switch(title, default, toggleswitch_id, **kwargs)
ToggleSwitch(th, M, H, m, toggleswitch_id, default, kw) ==
    LET r == FilterWidgetAttributes(th, kw)
    IN  IF ~(IsInt(default) /\ 0 <= default.v[1] /\ default.v[1] <= 1)
        THEN Raise(M, H, "extract")
        ELSE IF r.raised THEN RaiseKey(M, H, "resolve", r.err)
        ELSE WithDefault(
                 Built(ConfigureAndAppend(M, H, m,
                                          NewWidget(toggleswitch_id, TRUE, FALSE), TRUE),
                       r.attributes, PopAll(r.kwargs, ToggleSwitchKeys)),
                 default)

\* mutant of TextInput: a password input takes any default
TextInputAnyDefault(th, M, H, m, textinput_id, default, password, default_ok, kw) ==
    LET r == FilterWidgetAttributes(th, kw)
    IN  IF default.t \notin {"str", "int", "bool", "float"} THEN Raise(M, H, "extract")
        ELSE IF r.raised THEN RaiseKey(M, H, "resolve", r.err)
        ELSE Built(ConfigureAndAppend(M, H, m, NewWidget(textinput_id, TRUE, FALSE),
                                      default_ok),
                   r.attributes, PopAll(r.kwargs, TextInputKeys))

\* text_input(title, default, password, textinput_id, **kwargs); '' is Str(0);
\* default_ok: set_default_value accepts the default for the input type
TextInput(th, M, H, m, textinput_id, default, password, default_ok, kw) ==
    LET r == FilterWidgetAttributes(th, kw)
    IN  IF default.t \notin {"str", "int", "bool", "float"} THEN Raise(M, H, "extract")
        ELSE IF r.raised THEN RaiseKey(M, H, "resolve", r.err)
        ELSE IF password /\ default # Str(0) THEN Raise(M, H, "password")
        ELSE WithDefault(
                 Built(ConfigureAndAppend(M, H, m, NewWidget(textinput_id, TRUE, FALSE),
                                          default_ok),
                       r.attributes, PopAll(r.kwargs, TextInputKeys)),
                 default)

\* mutant of VerticalMargin: a margin of 0 is accepted
VerticalMarginZero(th, M, H, m, margin, margin_id) ==
    LET r == FilterWidgetAttributes(th, <<(<<"margin", Tup(<<0, margin.v[1]>>)>>)>>)
    IN  IF ~(IsNumber(margin) /\ margin.v[1] >= 0) THEN Raise(M, H, "extract")
        ELSE IF r.raised THEN RaiseKey(M, H, "resolve", r.err)
        ELSE Built(ConfigureAndAppend(M, H, m, NewWidget(margin_id, FALSE, FALSE),
                                      TRUE),
                   r.attributes, <<>>)

\* vertical_margin(margin, margin_id)
VerticalMargin(th, M, H, m, margin, margin_id) ==
    LET r == FilterWidgetAttributes(th, <<(<<"margin", Tup(<<0, margin.v[1]>>)>>)>>)
    IN  IF ~(IsNumber(margin) /\ margin.v[1] > 0) THEN Raise(M, H, "extract")
        ELSE IF r.raised THEN RaiseKey(M, H, "resolve", r.err)
        ELSE Built(ConfigureAndAppend(M, H, m, NewWidget(margin_id, FALSE, FALSE),
                                      TRUE),
                   r.attributes, <<>>)

\* none_widget(widget_id)
NoneWidget(th, M, H, m, widget_id) ==
    LET r == FilterWidgetAttributes(th, <<>>)
    IN  IF r.raised THEN RaiseKey(M, H, "resolve", r.err)
        ELSE Built(ConfigureAndAppend(M, H, m, NewWidget(widget_id, FALSE, FALSE),
                                      TRUE),
                   r.attributes, <<>>)

\* mutant of GenericWidget: the ID check after the optional configuration
\* is missing
GenericWidgetNoIdCheck(th, M, H, m, h, configure_defaults) ==
    LET r == FilterWidgetAttributes(th, <<>>)
        c == ConfigureWidget(M, H, m, H[h])
        w1 == IF configure_defaults THEN c.widget ELSE H[h]
        H2 == [H EXCEPT ![h] = [w1 EXCEPT !.menu = m]]
        a == AppendWidget(M, [H2 EXCEPT ![h].controls = TRUE], m, h)
    IN  IF H[h].menu # 0 THEN Raise(M, H, "bound")
        ELSE IF configure_defaults /\ r.raised THEN RaiseKey(M, H, "resolve", r.err)
        ELSE IF configure_defaults /\ c.raised
        THEN Raise(M, [H EXCEPT ![h] = c.widget], "bind")
        ELSE Return(a.menus, a.heap, <<h>>)

\* mutant of GenericWidget: a widget that has a menu is not refused
GenericWidgetRebind(th, M, H, m, h, configure_defaults) ==
    LET r == FilterWidgetAttributes(th, <<>>)
        c == ConfigureWidget(M, H, m, H[h])
        w1 == IF configure_defaults THEN c.widget ELSE H[h]
        H2 == [H EXCEPT ![h] = [w1 EXCEPT !.menu = m]]
        a == AppendWidget(M, [H2 EXCEPT ![h].controls = TRUE], m, h)
        rest == IF configure_defaults /\ r.raised
                THEN RaiseKey(M, H, "resolve", r.err)
                ELSE IF configure_defaults /\ c.raised
                THEN Raise(M, [H EXCEPT ![h] = c.widget], "bind")
                ELSE IF IdDuplicated(M, H2, m, H[h].id) THEN Raise(M, H2, "bind")
                ELSE Built(Return(a.menus, a.heap, <<h>>),
                           IF configure_defaults THEN r.attributes
                           ELSE BlankBundle, <<>>)
    IN  Warned(rest, H[h].to_menu)

\* mutant of GenericWidget: the Theme defaults are applied to every widget
GenericWidgetAlwaysConfigure(th, M, H, m, h, configure_defaults) ==
    LET r == FilterWidgetAttributes(th, <<>>)
        c == ConfigureWidget(M, H, m, H[h])
        \* the widget after the optional self._configure_widget(...)
        w1 == IF configure_defaults THEN c.widget ELSE [H[h] EXCEPT !.styled = TRUE]
        \* widget.set_menu(self._menu)
        H2 == [H EXCEPT ![h] = [w1 EXCEPT !.menu = m]]
        \* widget.set_controls(...), then self._append_widget(widget)
        a == AppendWidget(M, [H2 EXCEPT ![h].controls = TRUE], m, h)
        \* what follows the warning about a Button that opens a submenu
        rest == IF configure_defaults /\ r.raised
                THEN RaiseKey(M, H, "resolve", r.err)
                ELSE IF configure_defaults /\ c.raised
                THEN Raise(M, [H EXCEPT ![h] = c.widget], "bind")
                ELSE IF IdDuplicated(M, H2, m, H[h].id) THEN Raise(M, H2, "bind")
                ELSE Built(Return(a.menus, a.heap, <<h>>),
                           IF configure_defaults THEN r.attributes
                           ELSE BlankBundle, <<>>)
    IN  IF H[h].menu # 0 THEN Raise(M, H, "bound")
        ELSE Warned(rest, H[h].to_menu)

\* generic_widget(widget, configure_defaults) on the caller's widget, handle h
GenericWidget(th, M, H, m, h, configure_defaults) ==
    LET r == FilterWidgetAttributes(th, <<>>)
        c == ConfigureWidget(M, H, m, H[h])
        \* the widget after the optional self._configure_widget(...)
        w1 == IF configure_defaults THEN c.widget ELSE H[h]
        \* widget.set_menu(self._menu)
        H2 == [H EXCEPT ![h] = [w1 EXCEPT !.menu = m]]
        \* widget.set_controls(...), then self._append_widget(widget)
        a == AppendWidget(M, [H2 EXCEPT ![h].controls = TRUE], m, h)
        \* what follows the warning about a Button that opens a submenu
        rest == IF configure_defaults /\ r.raised
                THEN RaiseKey(M, H, "resolve", r.err)
                ELSE IF configure_defaults /\ c.raised
                THEN Raise(M, [H EXCEPT ![h] = c.widget], "bind")
                ELSE IF IdDuplicated(M, H2, m, H[h].id) THEN Raise(M, H2, "bind")
                ELSE Built(Return(a.menus, a.heap, <<h>>),
                           IF configure_defaults THEN r.attributes
                           ELSE BlankBundle, <<>>)
    IN  IF H[h].menu # 0 THEN Raise(M, H, "bound")
        ELSE Warned(rest, H[h].to_menu)

-----------------------------------------------------------------------------
(* label(): titles are tuples of characters.                               *)

RECURSIVE SplitSkipEmpty(_)
\* mutant of Split: empty lines are dropped
SplitSkipEmpty(title) ==
    LET nl == {i \in 1..Len(title) : title[i] = "\n"}
        first == CHOOSE i \in nl : \A j \in nl : i <= j
        line == IF nl = {} THEN title ELSE SubSeq(title, 1, first - 1)
        rest == IF nl = {} THEN <<>>
                ELSE SplitSkipEmpty(SubSeq(title, first + 1, Len(title)))
    IN  IF title = <<>> THEN <<>>
        ELSE IF line = <<>> THEN rest
        ELSE <<line>> \o rest

\* mutant of Split: the title is cut at its first line break only
SplitOnce(title) ==
    LET nl == {i \in 1..Len(title) : title[i] = "\n"}
        first == CHOOSE i \in nl : \A j \in nl : i <= j
    IN  IF nl = {} THEN <<title>>
        ELSE <<SubSeq(title, 1, first - 1), SubSeq(title, first + 1, Len(title))>>

RECURSIVE Split(_)
\* title.split('\n')
Split(title) ==
    LET nl == {i \in 1..Len(title) : title[i] = "\n"}
        first == CHOOSE i \in nl : \A j \in nl : i <= j
    IN  IF nl = {} THEN <<title>>
        ELSE <<SubSeq(title, 1, first - 1)>>
                 \o Split(SubSeq(title, first + 1, Len(title)))

RECURSIVE Chunks(_)
\* textwrap's chunks of a text: its maximal runs of blanks and of non-blanks
Chunks(text) ==
    LET brk == {i \in 2..Len(text) : (text[i] = " ") # (text[1] = " ")}
        first == IF brk = {} THEN Len(text) + 1
                 ELSE CHOOSE i \in brk : \A j \in brk : i <= j
    IN  IF text = <<>> THEN <<>>
        ELSE <<SubSeq(text, 1, first - 1)>>
                 \o Chunks(SubSeq(text, first, Len(text)))

RECURSIVE Concat(_)
\* ''.join(chunks)
Concat(chunks) ==
    IF chunks = <<>> THEN <<>> ELSE Head(chunks) \o Concat(Tail(chunks))

\* chunk.strip() == ''
IsBlank(chunk) == \A i \in 1..Len(chunk) : chunk[i] = " "

RECURSIVE WrapChunks(_, _, _)
\* textwrap.TextWrapper._wrap_chunks with the defaults (break_long_words,
\* drop_whitespace): the lines built from the chunks left, after `lines`
WrapChunks(chunks, width, lines) ==
    LET c0 == IF IsBlank(chunks[1]) /\ lines # <<>> THEN Tail(chunks) ELSE chunks
        fits == {k \in 0..Len(c0) : Len(Concat(SubSeq(c0, 1, k))) <= width}
        k == CHOOSE x \in fits : \A y \in fits : y <= x
        cur == SubSeq(c0, 1, k)
        rest == SubSeq(c0, k + 1, Len(c0))
        long == rest # <<>> /\ Len(rest[1]) > width
        space_left == IF width < 1 THEN 1 ELSE width - Len(Concat(cur))
        cur2 == IF long THEN Append(cur, SubSeq(rest[1], 1, space_left)) ELSE cur
        rest2 == IF long
                 THEN <<SubSeq(rest[1], space_left + 1, Len(rest[1]))>> \o Tail(rest)
                 ELSE rest
        cur3 == IF cur2 # <<>> /\ IsBlank(cur2[Len(cur2)])
                THEN SubSeq(cur2, 1, Len(cur2) - 1) ELSE cur2
    IN  IF chunks = <<>> THEN lines
        ELSE WrapChunks(rest2, width,
                        IF cur3 # <<>> THEN Append(lines, Concat(cur3)) ELSE lines)

\* textwrap.wrap(title, max_char)
Wrap(title, max_char) == WrapChunks(Chunks(title), max_char, <<>>)

\* Menu.get_width(inner=True), in px
MenuInnerWidth == 60
\* the rendered width of one character of the probe Label, in px
CharWidth == 10
\* the horizontal padding of the probe Label (left plus right), in px
ProbePadding == 16

\* dummy.get_width(): the rendered width of the probe Label
ProbeWidth(title) == CharWidth * Len(title) + ProbePadding

\* max_char = int(1.0 * menu width * len(title) / dummy.get_width())
AutoMaxChar(title) == (MenuInnerWidth * Len(title)) \div ProbeWidth(title)

\* the result res of the tail of label(), whose widget was constructed as
\* Label(title=title, ...)
Titled(res, title) ==
    IF res.raised THEN res ELSE [res EXCEPT !.texts = <<title>>]

\* the largest of a set of depths (0 for none)
Deepest(S) == IF S = {} THEN 0 ELSE CHOOSE x \in S : \A y \in S : y <= x

\* mutant of Elements: what a recursive call returns is appended as it is
ElementsAsReturned(res, flat) ==
    [i \in 1..Len(res.ret) |-> <<res.ret[i], res.texts[i], res.nest,
                                  res.attributes>>]

\* what a recursive label() call adds to the list being built, each Label
\* with its text, with the depth of the list element that holds it (0: the
\* element is the Label) and with the bundle it was configured with. The line-break branch (flat) adds the Labels
\* of a returned list one by one, the wrap branch appends what is returned
Elements(res, flat) ==
    LET depth == IF flat /\ res.nest > 0 THEN res.nest - 1 ELSE res.nest
    IN  [i \in 1..Len(res.ret) |-> <<res.ret[i], res.texts[i], depth,
                                      res.attributes>>]

RECURSIVE Label(_, _, _, _, _, _, _, _, _)
\* mutant of Probe: the probe resolves the caller's mapping itself
ProbeInPlace(th, M, H, m, title, kw) ==
    LET attrs == FilterWidgetAttributes(th, kw)
        dummy == ConfigureWidget(M, H, m, NewWidget(uuid4(H), FALSE, FALSE))
    IN  [ raised |-> attrs.raised \/ dummy.raised,
          step |-> IF attrs.raised THEN "resolve" ELSE "bind",
          err |-> IF attrs.raised THEN attrs.err ELSE "",
          kwargs |-> attrs.kwargs,
          max_char |-> AutoMaxChar(title) ]

\* the probe of label(max_char=-1): the bundle is resolved from
\* kwargs.copy(), a Label(title=title) is built and configured with it, and
\* max_char is computed from its width. The probe Label is not registered
\* and is dropped: the menus and the widgets are as before. kwargs is the
\* caller's mapping after the probe
Probe(th, M, H, m, title, kw) ==
    LET attrs == FilterWidgetAttributes(th, kw)
        dummy == ConfigureWidget(M, H, m, NewWidget(uuid4(H), FALSE, FALSE))
    IN  [ raised |-> attrs.raised \/ dummy.raised,
          step |-> IF attrs.raised THEN "resolve" ELSE "bind",
          err |-> IF attrs.raised THEN attrs.err ELSE "",
          kwargs |-> kw,
          max_char |-> AutoMaxChar(title) ]

RECURSIVE LabelEach(_, _, _, _, _, _, _, _, _, _, _, _, _)

\* label(title, label_id, max_char, selectable, **kwargs); '' is <<>>
Label(th, M, H, m, title, label_id0, max_char0, selectable, kw0) ==
    LET label_id == IF Len(label_id0) = 0 THEN uuid4(H) ELSE label_id0
        p == Probe(th, M, H, m, title, kw0)
        \* the caller's mapping, as the probe (if any) leaves it
        kw == IF max_char0 < 0 THEN p.kwargs ELSE kw0
        max_char == IF max_char0 < 0 THEN p.max_char ELSE max_char0
        r == FilterWidgetAttributes(th, kw)
    IN  IF max_char0 < -1 THEN Raise(M, H, "extract")
        ELSE IF \E i \in 1..Len(title) : title[i] = "\n"
        THEN LabelEach(th, M, H, m, Split(title), 1, <<>>, TRUE,
                       label_id, max_char0, selectable, kw0, 0)
        ELSE IF max_char0 < 0 /\ p.raised THEN RaiseKey(M, H, p.step, p.err)
        ELSE IF Len(title) <= max_char \/ max_char = 0
        THEN IF r.raised THEN RaiseKey(M, H, "resolve", r.err)
             ELSE IF CheckKwargs(r.kwargs).raised
             THEN RaiseKey(M, H, "kwargs", CheckKwargs(r.kwargs).err)
             ELSE Titled(Built(ConfigureAndAppend(M, H, m,
                                   NewWidget(label_id, selectable, FALSE), TRUE),
                               r.attributes, <<>>),
                         title)
        ELSE IF IdDuplicated(M, H, m, label_id) THEN Raise(M, H, "baseid")
        ELSE LabelEach(th, M, H, m, Wrap(title, max_char), 1, <<>>, FALSE,
                       label_id, max_char, selectable, kw, 0)

\* the loops of label(): one recursive label() call per line, from line i on;
\* acc holds the widgets collected so far, each with its title.  flat: the
\* split loop, which numbers a line by the widgets collected
\* (len(widgets) + 1); otherwise the wrap loop, which numbers it by the lines
\* done (len(widget) + 1).  deep: the deepest nesting of label() calls that
\* the recursive calls made so far have reached.
LabelEach(th, M, H, m, lines, i, acc, flat, label_id, max_char, selectable, kw, deep) ==
    LET n == IF flat THEN Len(acc) + 1 ELSE i
        r == Label(th, M, H, m, lines[i], DerivedId(label_id, n), max_char,
                   selectable, kw)
    IN  IF i > Len(lines)
        THEN [Return(M, H, [k \in 1..Len(acc) |-> acc[k][1]])
                  EXCEPT !.texts = [k \in 1..Len(acc) |-> acc[k][2]],
                         !.nest = 1 + Deepest({acc[k][3] : k \in 1..Len(acc)}),
                         !.attributes = IF acc = <<>> THEN BlankBundle
                                        ELSE acc[Len(acc)][4],
                         !.depth = 1 + deep]
        ELSE IF r.raised THEN RaiseKey(r.menus, r.heap, r.step, r.err)
        ELSE LabelEach(th, r.menus, r.heap, m, lines, i + 1, acc \o Elements(r, flat),
                       flat, label_id, max_char, selectable, kw,
                       IF r.depth > deep THEN r.depth ELSE deep)

-----------------------------------------------------------------------------
(* Spec: a caller builds one menu through its WidgetManager.               *)

\* the menu the caller builds
BuiltMenus == {1}

\* explicit widget IDs a caller passes: 'a' and 'a+2'
CallIds == {<<1>>, <<1, 2>>}

\* mappings a caller passes: none, an unknown key, a rejected style value
CallKwargs ==
    { <<>>, <<(<<"foo", IntV(42)>>)>>, <<(<<"font_size", IntV(0)>>)>> }

\* mappings a caller passes to a factory that forwards kwargs: those, and one
\* with style keys, keys of the widget kinds and an unknown key
ForwardKwargs ==
    CallKwargs \cup
        { << <<"font_size", IntV(12)>>, <<"font_antialias", BoolV(FALSE)>>,
             <<"input_underline_vmargin", IntV(3)>>, <<"width", IntV(100)>>,
             <<"foo", IntV(42)>> >> }

\* a mapping and the accept_kwargs flag passed with it
KwCases ==
    {[kw |-> kw, accept_kwargs |-> FALSE] : kw \in CallKwargs}
        \cup {[kw |-> <<(<<"foo", IntV(42)>>)>>, accept_kwargs |-> TRUE]}

\* button actions: a Menu of Ms, a MenuAction, a function, something else
ButtonActions(Ms) ==
    {[t |-> "Menu", m |-> x] : x \in Ms}
        \cup {[t |-> k, m |-> 0] : k \in {"event", "callable", "other"}}

\* the arguments of the button() calls: the actions of Ms with the IDs of Ids
\* and every mapping, and one call with back_count = 0
ButtonCalls(Ms, Ids) ==
    {[action |-> a, button_id |-> i, back_count |-> IntV(1), c |-> c] :
        a \in ButtonActions(Ms), i \in Ids, c \in KwCases}
    \cup {[action |-> [t |-> "event", m |-> 0], button_id |-> <<1>>,
           back_count |-> IntV(0), c |-> [kw |-> <<>>, accept_kwargs |-> FALSE]]}

\* [default, construct_ok, default_ok] of the color_input() calls
ColorInputCalls ==
    { <<Str(0), TRUE, TRUE>>, <<IntV(7), TRUE, TRUE>>,
      <<Str(0), FALSE, TRUE>>, <<Str(0), TRUE, FALSE>> }

\* [default, password, default_ok] of the text_input() calls
TextInputCalls ==
    { <<Str(0), TRUE, TRUE>>, <<Str(5), TRUE, TRUE>>, <<IntV(0), TRUE, TRUE>>,
      <<Str(5), FALSE, FALSE>>, <<IntV(7), FALSE, TRUE>>,
      <<FloatV(15), FALSE, TRUE>>, <<NoneV, FALSE, TRUE>> }

\* label titles: 'a', 'a\nb', 'aa bb'
Titles ==
    { <<"a">>, <<"a", "\n", "b">>, <<"a", "a", " ", "b", "b">> }

\* the arguments of the label() calls: every title, ID, max_char and
\* selectable without a mapping; the mappings with label_id 'a'; max_char -2
LabelCalls ==
    {[title |-> t, label_id |-> i, max_char |-> x, selectable |-> s, kw |-> <<>>] :
        t \in Titles, i \in {<<>>, <<1>>}, x \in {-1, 0, 2}, s \in BOOLEAN}
    \cup {[title |-> t, label_id |-> <<1>>, max_char |-> x, selectable |-> FALSE,
           kw |-> kw] : t \in Titles, x \in {-1, 2}, kw \in CallKwargs}
    \cup {[title |-> <<"a">>, label_id |-> <<1>>, max_char |-> -2,
           selectable |-> FALSE, kw |-> <<>>]}

\* the arguments of a call that the claims refer to, as the caller passed
\* them (an argument the factory does not take keeps the value below)
\* widget: the handle of the Widget object passed (0: none);
\* ext_ok: the widget class, which is not part of this file, accepts what the
\* factory hands it (its constructor and its set_default_value do not raise)
NoArgs ==
    [ id |-> <<>>, title |-> <<>>, max_char |-> 0, kw |-> <<>>,
      accept_kwargs |-> FALSE, action |-> [t |-> "none", m |-> 0],
      default |-> NoneV, password |-> FALSE, margin |-> NoneV,
      widget |-> 0, configure_defaults |-> FALSE, ext_ok |-> TRUE ]

\* last: the call that just ended (its arguments, whether it raised, at which
\* step, the key its error names, the widgets it returned, the mapping it
\* forwarded, the default it set on the widget), until the caller goes on
NoCall ==
    [ op |-> "none", menu |-> 0, call |-> NoArgs, raised |-> FALSE,
      step |-> "none", err |-> "", ret |-> <<>>, texts |-> <<>>, fwd |-> <<>>,
      default |-> NoneV, warned |-> FALSE, nest |-> 0, depth |-> 0 ]

Init ==
    /\ theme = THEME_DEFAULT
    /\ kwargs0 = <<>>
    /\ kwargs = <<>>
    /\ attributes = BlankBundle
    /\ rstate = "idle"
    /\ rerr = ""
    /\ menus = [m \in Menus |-> NewMenu]
    /\ heap = <<>>
    /\ last = NoCall
    /\ frames = <<>>
    /\ renders = 0

\* the number of submenu links of all the menus
Links(M) ==
    LET n[k \in 0..Cardinality(Menus)] ==
            IF k = 0 THEN 0 ELSE n[k - 1] + Len(M[k]._submenus)
    IN  n[Cardinality(Menus)]

\* the call op(call) on menu m ends with result r; a call that builds
\* widgets is made while fewer than MaxWidgets widgets exist
Finish(op, m, call, r) ==
    /\ last = NoCall
    /\ Len(heap) < MaxWidgets \/ Len(r.heap) = Len(heap)
    /\ Links(r.menus) <= MaxSubmenus
    /\ menus' = r.menus
    /\ heap' = r.heap
    /\ last' = [ op |-> op, menu |-> m, call |-> call, raised |-> r.raised,
                 step |-> r.step, err |-> r.err, ret |-> r.ret,
                 texts |-> r.texts, fwd |-> r.fwd, default |-> r.default,
                 warned |-> r.warned, nest |-> r.nest, depth |-> r.depth ]
    /\ attributes' = r.attributes
    /\ UNCHANGED <<frames, renders>>
    /\ UNCHANGED <<theme, kwargs0, kwargs, rstate, rerr>>

button ==
    \E m \in BuiltMenus, a \in ButtonCalls(BuiltMenus, CallIds) :
        Finish("button", m,
               [NoArgs EXCEPT !.id = a.button_id, !.kw = a.c.kw,
                              !.accept_kwargs = a.c.accept_kwargs,
                              !.action = a.action],
               Button(theme, menus, heap, m, a.action, a.button_id, a.back_count,
                      a.c.accept_kwargs, a.c.kw))

color_input ==
    \E m \in BuiltMenus, color_id \in CallIds, a \in ColorInputCalls,
       kw \in ForwardKwargs :
        Finish("color_input", m,
               [NoArgs EXCEPT !.id = color_id, !.kw = kw, !.default = a[1],
                              !.ext_ok = a[2] /\ a[3]],
               ColorInput(theme, menus, heap, m, color_id, a[1], a[2], a[3], kw))

image ==
    \E m \in BuiltMenus, image_id \in CallIds, selectable \in BOOLEAN,
       construct_ok \in BOOLEAN, kw \in CallKwargs :
        Finish("image", m,
               [NoArgs EXCEPT !.id = image_id, !.kw = kw, !.ext_ok = construct_ok],
               Image(theme, menus, heap, m, image_id, selectable, construct_ok, kw))

label ==
    \E m \in BuiltMenus, a \in LabelCalls :
        Finish("label", m,
               [NoArgs EXCEPT !.id = a.label_id, !.title = a.title,
                              !.max_char = a.max_char, !.kw = a.kw],
               Label(theme, menus, heap, m, a.title, a.label_id, a.max_char,
                     a.selectable, a.kw))

selector ==
    \E m \in BuiltMenus, selector_id \in CallIds, construct_ok \in BOOLEAN,
       kw \in ForwardKwargs :
        Finish("selector", m,
               [NoArgs EXCEPT !.id = selector_id, !.kw = kw, !.ext_ok = construct_ok],
               Selector(theme, menus, heap, m, selector_id, construct_ok, kw))

toggle_switch ==
    \E m \in BuiltMenus, toggleswitch_id \in CallIds,
       default \in {IntV(0), BoolV(TRUE), IntV(2), Str(1)}, kw \in ForwardKwargs :
        Finish("toggle_switch", m,
               [NoArgs EXCEPT !.id = toggleswitch_id, !.kw = kw, !.default = default],
               ToggleSwitch(theme, menus, heap, m, toggleswitch_id, default, kw))

text_input ==
    \E m \in BuiltMenus, textinput_id \in CallIds, a \in TextInputCalls,
       kw \in ForwardKwargs :
        Finish("text_input", m,
               [NoArgs EXCEPT !.id = textinput_id, !.kw = kw, !.default = a[1],
                              !.password = a[2], !.ext_ok = a[3]],
               TextInput(theme, menus, heap, m, textinput_id, a[1], a[2], a[3], kw))

vertical_margin ==
    \E m \in BuiltMenus, margin \in {IntV(5), IntV(0), Str(1)}, margin_id \in CallIds :
        Finish("vertical_margin", m,
               [NoArgs EXCEPT !.id = margin_id, !.margin = margin],
               VerticalMargin(theme, menus, heap, m, margin, margin_id))

none_widget ==
    \E m \in BuiltMenus, widget_id \in CallIds :
        Finish("none_widget", m, [NoArgs EXCEPT !.id = widget_id],
               NoneWidget(theme, menus, heap, m, widget_id))

generic_widget ==
    \E m \in BuiltMenus, h \in 1..Len(heap), configure_defaults \in BOOLEAN :
        Finish("generic_widget", m,
               [NoArgs EXCEPT !.id = heap[h].id, !.widget = h,
                              !.configure_defaults = configure_defaults],
               GenericWidget(theme, menus, heap, m, h, configure_defaults))

\* the caller constructs a Widget of its own (to pass it to generic_widget)
ConstructWidget ==
    \E id \in CallIds :
        /\ last = NoCall
        /\ Len(heap) < MaxWidgets
        /\ heap' = Append(heap, NewWidget(id, TRUE, FALSE))
        /\ UNCHANGED <<frames, renders>>
        /\ UNCHANGED <<theme, kwargs0, kwargs, attributes, rstate, rerr, menus, last>>

\* the event loop draws menu m: the widgets surface is rebuilt if it is None
Draw ==
    \E m \in BuiltMenus :
        /\ last = NoCall
        /\ frames = <<>>
        /\ menus[m]._widgets_surface = "None"
        /\ menus' = [menus EXCEPT ![m]._widgets_surface = "Surface"]
        /\ UNCHANGED <<frames, renders>>
        /\ UNCHANGED <<theme, kwargs0, kwargs, attributes, rstate, rerr, heap, last>>

\* the caller takes the widget returned, or handles the exception, and goes on
CallerContinues ==
    /\ last # NoCall
    /\ last' = NoCall
    /\ attributes' = BlankBundle
    /\ UNCHANGED <<frames, renders>>
    /\ UNCHANGED <<theme, kwargs0, kwargs, rstate, rerr, menus, heap>>

Next ==
    \/ button
    \/ color_input
    \/ image
    \/ label
    \/ selector
    \/ toggle_switch
    \/ text_input
    \/ vertical_margin
    \/ none_widget
    \/ generic_widget
    \/ ConstructWidget
    \/ Draw
    \/ CallerContinues

Spec == Init /\ [][Next]_vars

-----------------------------------------------------------------------------
(* SpecMenus: callers add buttons to several menus, linking them.          *)

\* button() on any menu, with any menu as its action, always with ID 'a'
MenuButton ==
    \E m \in Menus, a \in ButtonCalls(Menus, {<<1>>}) :
        Finish("button", m,
               [NoArgs EXCEPT !.id = a.button_id, !.kw = a.c.kw,
                              !.accept_kwargs = a.c.accept_kwargs,
                              !.action = a.action],
               Button(theme, menus, heap, m, a.action, a.button_id, a.back_count,
                      a.c.accept_kwargs, a.c.kw))

NextMenus ==
    \/ MenuButton
    \/ CallerContinues

SpecMenus == Init /\ [][NextMenus]_vars

-----------------------------------------------------------------------------
(* SpecBinding: a caller hands its own widgets to two menus.               *)

\* the two menus
BoundMenus == {1, 2}

\* generic_widget(widget, configure_defaults) on either menu
\* the caller builds a Button that opens a submenu, and has not added it
ConstructButton ==
    \E id \in CallIds :
        /\ last = NoCall
        /\ Len(heap) < MaxWidgets
        /\ heap' = Append(heap, NewWidget(id, TRUE, TRUE))
        /\ UNCHANGED <<frames, renders>>
        /\ UNCHANGED <<theme, kwargs0, kwargs, attributes, rstate, rerr, menus, last>>

BindGeneric ==
    \E m \in BoundMenus, h \in 1..Len(heap), configure_defaults \in BOOLEAN :
        Finish("generic_widget", m,
               [NoArgs EXCEPT !.id = heap[h].id, !.widget = h,
                              !.configure_defaults = configure_defaults],
               GenericWidget(theme, menus, heap, m, h, configure_defaults))

\* _configure_widget(widget, **attributes) called on the caller's widget
BindConfigure ==
    \E m \in BoundMenus, h \in 1..Len(heap) :
        LET c == ConfigureWidget(menus, heap, m, heap[h])
            H2 == [heap EXCEPT ![h] = c.widget]
        IN  Finish("_configure_widget", m,
                   [NoArgs EXCEPT !.id = heap[h].id, !.widget = h],
                   IF c.raised THEN Raise(menus, H2, "bind")
                   ELSE Return(menus, H2, <<>>))

\* none_widget(widget_id) on either menu
BindNoneWidget ==
    \E m \in BoundMenus, widget_id \in CallIds :
        Finish("none_widget", m, [NoArgs EXCEPT !.id = widget_id],
               NoneWidget(theme, menus, heap, m, widget_id))

NextBinding ==
    \/ BindGeneric
    \/ BindConfigure
    \/ BindNoneWidget
    \/ ConstructWidget
    \/ ConstructButton
    \/ CallerContinues

SpecBinding == Init /\ [][NextBinding]_vars

-----------------------------------------------------------------------------
(* SpecLabel: a caller adds labels whose titles hold line breaks.          *)

\* label titles: 'a', 'a\nb', 'b\n\na', 'ab\nc', 'ab', two blanks, 'aa bb',
\* 'c\nab'
LineTitles ==
    { <<"a">>, <<"a", "\n", "b">>, <<"b", "\n", "\n", "a">>,
      <<"a", "b", "\n", "c">>, <<"a", "b">>, <<" ", " ">>,
      <<"a", "a", " ", "b", "b">>, <<"c", "\n", "a", "b">> }

\* the mappings of the label() calls: none, a style key, an unknown key, both
LineKwargs ==
    { <<>>, <<(<<"font_size", IntV(20)>>)>>, <<(<<"foo", IntV(42)>>)>>,
      <<(<<"font_size", IntV(20)>>), (<<"foo", IntV(42)>>)>> }

\* the arguments of the label() calls: every title and ID with max_char 0
\* and 1, not selectable, without a mapping; every title, selectable or not,
\* with every mapping and max_char -1
LineCalls ==
    {[title |-> t, label_id |-> i, max_char |-> x, selectable |-> FALSE,
      kw |-> <<>>] : t \in LineTitles, i \in {<<>>} \cup CallIds, x \in {0, 1}}
    \cup {[title |-> t, label_id |-> i, max_char |-> -1, selectable |-> s,
           kw |-> kw] : t \in LineTitles, i \in {<<>>, <<1>>}, s \in BOOLEAN,
                        kw \in LineKwargs}

LabelLines ==
    \E m \in BuiltMenus, a \in LineCalls :
        Finish("label", m,
               [NoArgs EXCEPT !.id = a.label_id, !.title = a.title,
                              !.max_char = a.max_char, !.kw = a.kw],
               Label(theme, menus, heap, m, a.title, a.label_id, a.max_char,
                     a.selectable, a.kw))

NextLabel ==
    \/ LabelLines
    \/ CallerContinues

SpecLabel == Init /\ [][NextLabel]_vars

-----------------------------------------------------------------------------
(* SpecThemed: a caller adds images, vertical margins and toggle switches  *)
(* to a menu built with any of the themes.                                 *)

\* mappings a caller passes to image(): the keys image() discards, with
\* values the resolver accepts and values it rejects, other style keys, and
\* an unknown key
ImageKwargs ==
    { <<>>,
      << <<"font_size", IntV(0)>> >>,
      << <<"font_color", Tup(<<7, 7, 7>>)>>, <<"font_name", IntV(0)>> >>,
      << <<"font_background_color", Tup(<<5, 5, 5>>)>>, <<"shadow", IntV(1)>> >>,
      << <<"shadow_color", Tup(<<0, 0, 256>>)>>, <<"shadow_position", NoneV>>,
         <<"shadow_offset", Str(1)>> >>,
      << <<"font_size", IntV(12)>>, <<"foo", IntV(42)>> >>,
      << <<"background_color", Tup(<<10, 20, 30>>)>>, <<"font_size", IntV(12)>> >>,
      << <<"shadow", BoolV(TRUE)>>, <<"border_width", IntV(-1)>> >> }

\* the margins a caller passes to vertical_margin(): 5, 2.5, 0, -3, 'x'
MarginValues == {IntV(5), FloatV(25), IntV(0), IntV(-3), Str(1)}

InitThemed ==
    /\ theme \in Themes
    /\ kwargs0 = <<>>
    /\ kwargs = <<>>
    /\ attributes = BlankBundle
    /\ rstate = "idle"
    /\ rerr = ""
    /\ menus = [m \in Menus |-> NewMenu]
    /\ heap = <<>>
    /\ last = NoCall
    /\ frames = <<>>
    /\ renders = 0

ThemedImage ==
    \E m \in BuiltMenus, image_id \in CallIds, kw \in ImageKwargs :
        Finish("image", m, [NoArgs EXCEPT !.id = image_id, !.kw = kw],
               Image(theme, menus, heap, m, image_id, FALSE, TRUE, kw))

ThemedVerticalMargin ==
    \E m \in BuiltMenus, margin \in MarginValues, margin_id \in CallIds :
        Finish("vertical_margin", m,
               [NoArgs EXCEPT !.id = margin_id, !.margin = margin],
               VerticalMargin(theme, menus, heap, m, margin, margin_id))

\* the defaults a caller passes to toggle_switch(): 0, 1, False, True, 2, -1,
\* 1.0, 'x', None
ToggleDefaults ==
    { IntV(0), IntV(1), BoolV(FALSE), BoolV(TRUE), IntV(2), IntV(-1),
      FloatV(10), Str(1), NoneV }

ThemedToggleSwitch ==
    \E m \in BuiltMenus, default \in ToggleDefaults,
       kw \in {<<>>, <<(<<"font_size", IntV(0)>>)>>} :
        Finish("toggle_switch", m,
               [NoArgs EXCEPT !.id = <<1>>, !.kw = kw, !.default = default],
               ToggleSwitch(theme, menus, heap, m, <<1>>, default, kw))

NextThemed ==
    \/ ThemedImage
    \/ ThemedVerticalMargin
    \/ ThemedToggleSwitch
    \/ CallerContinues

SpecThemed == InitThemed /\ [][NextThemed]_vars

-----------------------------------------------------------------------------
(* SpecAppend: _append_widget, one statement at a time.  The factories of  *)
(* the other specifications run it as one step, which is what it is when   *)
(* no callback of the widget registers a widget; here widget.select() may  *)
(* fire a select callback that registers a widget of its own in the same   *)
(* menu before _append_widget goes on.                                     *)

\* the menu the widgets are registered in
AppendMenu == CHOOSE m \in BuiltMenus : TRUE

\* a widget as a factory hands it to _append_widget: bound to the menu
\* and styled by _configure_widget
Configured(id, selectable) ==
    [NewWidget(id, selectable, FALSE) EXCEPT !.menu = AppendMenu,
                                             !.styled = TRUE,
                                             !.controls = TRUE]

\* an activation of _append_widget(widget) at its first statement; selects
\* and nested record what the activation has done: it called
\* widget.select(), the callback fired by that call registered a widget
Frame(h) ==
    [widget |-> h, pc |-> "append", selects |-> FALSE, nested |-> FALSE]

\* self._menu._widgets.append(widget)
Appended(M, m, h) == [M EXCEPT ![m]._widgets = Append(@, h)]

\* mutant of Indexed: the index is that of the first widget
IndexedFirst(M, m) == [M EXCEPT ![m]._index = 0]

\* self._menu._index = len(self._menu._widgets) - 1
Indexed(M, m) == [M EXCEPT ![m]._index = Len(M[m]._widgets) - 1]

\* mutant of Counted: the counter is advanced by two
CountedTwice(M, m) == [M EXCEPT ![m].added_widgets = @ + 2]

\* self._menu._stats.added_widgets += 1
Counted(M, m) == [M EXCEPT ![m].added_widgets = @ + 1]

\* self._menu._widgets_surface = None
Invalidated(M, m) == [M EXCEPT ![m]._widgets_surface = "None"]

\* the activation that is running, and the stack with it replaced
Top == frames[Len(frames)]
SetTop(f) == [frames EXCEPT ![Len(frames)] = f]

\* the statement of the running activation is at pc
At(pc) == frames # <<>> /\ Top.pc = pc

\* a factory has built and configured a widget and calls _append_widget
CallAppend ==
    \E selectable \in BOOLEAN :
        /\ frames = <<>>
        /\ last = NoCall
        /\ Len(heap) <= MaxWidgets
        /\ heap' = Append(heap, Configured(<<Len(heap) + 1>>, selectable))
        /\ frames' = <<Frame(Len(heap) + 1)>>
        /\ UNCHANGED <<theme, kwargs0, kwargs, attributes, rstate, rerr, menus,
                       last, renders>>

StepAppend ==
    /\ At("append")
    /\ menus' = Appended(menus, AppendMenu, Top.widget)
    /\ frames' = SetTop([Top EXCEPT !.pc = "test"])
    /\ UNCHANGED <<theme, kwargs0, kwargs, attributes, rstate, rerr, heap,
                   last, renders>>

\* if self._menu._index < 0 and widget.is_selectable:
StepTest ==
    /\ At("test")
    /\ frames' = SetTop([Top EXCEPT !.pc =
                            IF /\ menus[AppendMenu]._index < 0
                               /\ heap[Top.widget].is_selectable
                            THEN "select" ELSE "count"])
    /\ UNCHANGED <<theme, kwargs0, kwargs, attributes, rstate, rerr, menus,
                   heap, last, renders>>

\* widget.select(): the widget is selected, and its select callback is run
StepSelect ==
    /\ At("select")
    /\ heap' = [heap EXCEPT ![Top.widget].selected = TRUE]
    /\ frames' = SetTop([Top EXCEPT !.pc = "callback", !.selects = TRUE])
    /\ UNCHANGED <<theme, kwargs0, kwargs, attributes, rstate, rerr, menus,
                   last, renders>>

\* the select callback calls a factory of the same menu, which builds and
\* configures a widget and calls _append_widget
CallbackAppends ==
    \E selectable \in BOOLEAN :
        /\ At("callback")
        /\ Len(heap) <= MaxWidgets
        /\ heap' = Append(heap, Configured(<<Len(heap) + 1>>, selectable))
        /\ frames' = Append(SetTop([Top EXCEPT !.pc = "index", !.nested = TRUE]),
                            Frame(Len(heap) + 1))
        /\ UNCHANGED <<theme, kwargs0, kwargs, attributes, rstate, rerr, menus,
                       last, renders>>

\* there is no select callback, or it returns without registering a widget
CallbackReturns ==
    /\ At("callback")
    /\ frames' = SetTop([Top EXCEPT !.pc = "index"])
    /\ UNCHANGED <<theme, kwargs0, kwargs, attributes, rstate, rerr, menus,
                   heap, last, renders>>

StepIndex ==
    /\ At("index")
    /\ menus' = Indexed(menus, AppendMenu)
    /\ frames' = SetTop([Top EXCEPT !.pc = "count"])
    /\ UNCHANGED <<theme, kwargs0, kwargs, attributes, rstate, rerr, heap,
                   last, renders>>

StepCount ==
    /\ At("count")
    /\ menus' = Counted(menus, AppendMenu)
    /\ frames' = SetTop([Top EXCEPT !.pc = "surface"])
    /\ UNCHANGED <<theme, kwargs0, kwargs, attributes, rstate, rerr, heap,
                   last, renders>>

StepSurface ==
    /\ At("surface")
    /\ menus' = Invalidated(menus, AppendMenu)
    /\ frames' = SetTop([Top EXCEPT !.pc = "render"])
    /\ UNCHANGED <<theme, kwargs0, kwargs, attributes, rstate, rerr, heap,
                   last, renders>>

\* self._menu._render(), the last statement
StepRender ==
    /\ At("render")
    /\ renders' = renders + 1
    /\ frames' = SetTop([Top EXCEPT !.pc = "returned"])
    /\ UNCHANGED <<theme, kwargs0, kwargs, attributes, rstate, rerr, menus,
                   heap, last>>

\* _append_widget has returned: its caller goes on
AppendReturns ==
    /\ At("returned")
    /\ frames' = SubSeq(frames, 1, Len(frames) - 1)
    /\ UNCHANGED <<theme, kwargs0, kwargs, attributes, rstate, rerr, menus,
                   heap, last, renders>>

NextAppend ==
    \/ CallAppend
    \/ StepAppend
    \/ StepTest
    \/ StepSelect
    \/ CallbackAppends
    \/ CallbackReturns
    \/ StepIndex
    \/ StepCount
    \/ StepSurface
    \/ StepRender
    \/ AppendReturns
    \/ Draw

SpecAppend == Init /\ [][NextAppend]_vars

-----------------------------------------------------------------------------
(* SpecResolver: a caller's mapping, resolved and then checked.            *)

\* keys a caller may put in the mapping: the bundle's keys and two unknown ones
CallerKeys == {AttributeKeys[i] : i \in 1..Len(AttributeKeys)} \cup {"foo", "bar"}

\* values a caller may give a key: accepted ones that differ from every
\* Theme's default, and rejected ones
CallerValues(key) ==
    CASE key = "align" -> {Str(2), IntV(1)}
      [] key = "background_color" ->
            {Tup(<<10, 20, 30>>), NoneV, BaseImage(2), Tup(<<300, 0, 0>>)}
      [] key = "background_inflate" ->
            {Tup(<<2, 2>>), Tup(<<-1, 0>>), Tup(<<1, 2, 3>>)}
      [] key = "border_color" -> {Tup(<<1, 1, 1>>), NoneV}
      [] key = "border_inflate" -> {Tup(<<1, 1>>), Tup(<<0, -1>>)}
      [] key = "border_width" -> {IntV(3), IntV(-1), FloatV(15)}
      [] key = "font_antialias" -> {BoolV(FALSE)}
      [] key = "font_background_color" -> {Tup(<<5, 5, 5>>), NoneV, Str(99)}
      [] key = "font_color" -> {Tup(<<7, 7, 7>>), Tup(<<0, 0>>)}
      [] key = "font_name" -> {Str(11), PathV(12), IntV(0)}
      [] key = "font_size" -> {IntV(12), IntV(0)}
      [] key = "margin" ->
            {Tup(<<5, 5>>), Tup(<<-1, 2>>), IntV(5), Tup(<<1, 2, 3, 4>>),
             Lst(<<5, 5>>)}
      [] key = "padding" ->
            {IntV(3), IntV(-3), Tup(<<1, 2>>), Tup(<<1, 2, 3>>), Str(1),
             Lst(<<1, 2>>)}
      [] key = "readonly_color" -> {Tup(<<8, 8, 8>>), Str(1)}
      [] key = "readonly_selected_color" -> {Tup(<<8, 8, 9>>), Str(1)}
      [] key = "selection_color" -> {Tup(<<8, 9, 9>>), Str(1)}
      [] key = "selection_effect" -> {Selection(2), NoneV, IntV(0)}
      [] key = "shadow" -> {BoolV(TRUE), IntV(1)}
      [] key = "shadow_color" -> {Tup(<<9, 9, 9, 128>>), Tup(<<0, 0, 256>>)}
      [] key = "shadow_position" -> {Str(21), NoneV}
      [] key = "shadow_offset" -> {IntV(5), FloatV(15), Str(1)}
      [] OTHER -> {IntV(42)}

\* the items a caller may put in the mapping
CallerItems == UNION {{<<k, v>> : v \in CallerValues(k)} : k \in CallerKeys}

\* the place of a key in the mappings enumerated: the style keys in the
\* bundle's order, then the unknown keys
Rank(key) ==
    IF key \in {AttributeKeys[i] : i \in 1..Len(AttributeKeys)}
    THEN CHOOSE i \in 1..Len(AttributeKeys) : AttributeKeys[i] = key
    ELSE Len(AttributeKeys) + 1

\* the mappings of at most n items, the keys distinct.  The resolver reads the
\* mapping by key only, so the style keys are enumerated in one insertion
\* order; _check_kwargs reads the keys left in insertion order, so the unknown
\* keys are enumerated in every order.
Mappings(n) ==
    UNION {{kw \in [1..len -> CallerItems] :
                \A i, j \in 1..len :
                    i < j => /\ kw[i][1] # kw[j][1]
                             /\ Rank(kw[i][1]) <= Rank(kw[j][1])} : len \in 0..n}

\* the containers' state while SpecResolver runs (no menu is involved)
NoMenus == <<>>

InitResolver ==
    /\ theme \in Themes
    /\ kwargs0 \in Mappings(MaxKwargs)
    /\ kwargs = kwargs0
    /\ attributes = BlankBundle
    /\ rstate = "init"
    /\ rerr = ""
    /\ menus = NoMenus
    /\ heap = <<>>
    /\ last = NoCall
    /\ frames = <<>>
    /\ renders = 0

\* attributes = self._filter_widget_attributes(kwargs)
ResolveCall ==
    /\ rstate = "init"
    /\ LET r == FilterWidgetAttributes(theme, kwargs)
       IN  /\ rstate' = IF r.raised THEN "raised" ELSE "returned"
           /\ rerr' = r.err
           /\ attributes' = r.attributes
           /\ kwargs' = r.kwargs
    /\ UNCHANGED <<frames, renders>>
    /\ UNCHANGED <<theme, kwargs0, menus, heap, last>>

\* self._check_kwargs(kwargs), as the non-forwarding factories call it next
CheckCall ==
    /\ rstate = "returned"
    /\ LET c == CheckKwargs(kwargs)
       IN  /\ rstate' = IF c.raised THEN "rejected" ELSE "checked"
           /\ rerr' = c.err
    /\ UNCHANGED <<frames, renders>>
    /\ UNCHANGED <<theme, kwargs0, kwargs, attributes, menus, heap, last>>

NextResolver == ResolveCall \/ CheckCall

SpecResolver == InitResolver /\ [][NextResolver]_vars

-----------------------------------------------------------------------------
(* Claims about registration (checked under Spec and SpecMenus).           *)

\* this step is a factory call: it ends with the call recorded in last'
Called == last = NoCall /\ last' # NoCall

\* the title holds a line break
HasNewline(title) == \E i \in 1..Len(title) : title[i] = "\n"

\* the label() call expands into several Labels (line breaks, or wrapping)
Expands(call) ==
    LET mc == IF call.max_char < 0 THEN AutoMaxChar(call.title) ELSE call.max_char
    IN  HasNewline(call.title) \/ (mc # 0 /\ Len(call.title) > mc)

\* the fields of menu m that registration writes are the same after this step
RegistrationUnchanged(m) ==
    /\ menus'[m]._widgets = menus[m]._widgets
    /\ menus'[m]._index = menus[m]._index
    /\ menus'[m].added_widgets = menus[m].added_widgets
    /\ menus'[m]._widgets_surface = menus[m]._widgets_surface

\* C1: in every menu, once the selection index is >= 0 no step changes it,
\* and after every step, if the menu holds a selectable widget, the index is
\* the position of the first selectable widget of the sequence and that
\* widget is the only selected one.
C1_FirstSelectableSelected ==
    [][ \A m \in Menus :
          LET ws == menus'[m]._widgets
              sel == {i \in 1..Len(ws) : heap'[ws[i]].is_selectable}
              idx == menus'[m]._index
          IN  /\ menus[m]._index >= 0 => idx = menus[m]._index
              /\ sel # {} =>
                    /\ idx + 1 \in sel
                    /\ \A j \in sel : idx + 1 <= j
                    /\ \A i \in 1..Len(ws) : heap'[ws[i]].selected <=> (i = idx + 1)
      ]_vars

\* C1 witness: two selectable widgets were appended: the index is the
\* position of the first, the only one selected
C1_Witness ==
    LET ws == menus[1]._widgets
    IN  /\ Len(ws) = 2
        /\ heap[ws[1]].is_selectable /\ heap[ws[2]].is_selectable
        /\ menus[1]._index = 0
        /\ heap[ws[1]].selected /\ ~heap[ws[2]].selected

\* a call whose explicit ID is the ID of a widget of the menu's sequence
DuplicateCall == Called /\ last'.call.id \in MenuIds(menus, heap, last'.menu)

\* the call raised, appended nothing, and applied no style to any widget
Rejected ==
    /\ last'.raised
    /\ menus'[last'.menu]._widgets = menus[last'.menu]._widgets
    /\ \A h \in 1..Len(heap) : heap'[h].styled = heap[h].styled

\* C2 (as stated): every factory call whose explicit ID is the ID of a widget
\* already in the container's sequence raises, appends nothing, and applies
\* no style before the ID check.
C2_AsStated == [][DuplicateCall => Rejected]_vars

\* C2 (amended): the same, except for a label() call whose title holds line
\* breaks: its Labels carry IDs derived from the explicit ID, and the explicit
\* ID itself is not checked.
C2_DuplicateIdRejected ==
    [][ (DuplicateCall /\ ~(last'.op = "label" /\ HasNewline(last'.call.title)))
            => Rejected ]_vars

\* C2 witness: generic_widget with the default configuration was refused at
\* the ID check for a widget whose ID is in the sequence
C2_Witness ==
    /\ last.op = "generic_widget"
    /\ last.raised /\ last.step = "bind"
    /\ last.call.id \in MenuIds(menus, heap, last.menu)
    /\ \E h \in 1..Len(heap) :
          heap[h].id = last.call.id /\ heap[h].menu = last.menu /\ ~heap[h].styled

\* C3: no two widgets of a menu's sequence have the same ID.
C3_UniqueIds ==
    \A m \in Menus :
        \A i, j \in 1..Len(menus[m]._widgets) :
            i # j => heap[menus[m]._widgets[i]].id # heap[menus[m]._widgets[j]].id

\* C3 witness: a menu holds the two Labels of an expanded label(), with
\* the derived IDs 'a+1' and 'a+2', and a call was then refused at the ID
\* check
C3_Witness ==
    LET ws == menus[1]._widgets
    IN  /\ Len(ws) = 2
        /\ heap[ws[1]].id = <<1, 1>>
        /\ heap[ws[2]].id = <<1, 2>>
        /\ last.raised /\ last.step = "bind"

\* no menu is its own (recursive) submenu
Acyclic(M) == \A m \in Menus : ~InSubmenu(M, m, m)

\* C4: a button() call whose action is the menu itself, or a menu from
\* which the menu is reachable through submenu links, raises and changes no
\* menu; and after every step the submenu links hold no cycle.
C4_NoSubmenuCycle ==
    [][ /\ Acyclic(menus')
        /\ ( /\ Called
             /\ last'.op = "button"
             /\ last'.call.action.t = "Menu"
             /\ \/ last'.call.action.m = last'.menu
                \/ InSubmenu(menus, last'.call.action.m, last'.menu) )
           => last'.raised /\ menus' = menus
      ]_vars

\* C4 witness: a button was refused whose action is another menu that does
\* not hold the menu as a direct submenu, only two links away
C4_Witness ==
    /\ last.op = "button" /\ last.raised /\ last.step = "cycle"
    /\ last.call.action.m # last.menu
    /\ \A i \in 1..Len(menus[last.call.action.m]._submenus) :
          menus[last.call.action.m]._submenus[i] # last.menu

\* C5: a single-widget factory call (every factory; label only when it does
\* not expand) that raises, at whatever step, leaves the menu's widget
\* sequence, selection index, insertion counter and widgets surface as they
\* were.
C5_FailedCallRegistersNothing ==
    [][ ( /\ Called
          /\ last'.raised
          /\ (last'.op = "label" => ~Expands(last'.call)) )
            => RegistrationUnchanged(last'.menu) ]_vars

\* C5 witness: text_input raised while setting the default value, on a menu
\* that holds a widget and a built widgets surface
C5_Witness ==
    /\ last.op = "text_input" /\ last.raised /\ last.step = "default"
    /\ Len(menus[last.menu]._widgets) >= 1
    /\ menus[last.menu]._widgets_surface = "Surface"

\* C6 (as stated): a button() call with a Menu as action that raises after the
\* cycle check (leftover key, or duplicate ID at bind time) leaves the menu's
\* submenu list as it was.
C6_AsStated ==
    [][ ( /\ Called
          /\ last'.op = "button"
          /\ last'.call.action.t = "Menu"
          /\ last'.raised
          /\ last'.step \in {"kwargs", "bind"} )
            => menus'[last'.menu]._submenus = menus[last'.menu]._submenus ]_vars

\* C7 (as stated): a label() call that expands and raises leaves the menu's
\* widget sequence, selection index and insertion counter as they were.
C7_AsStated ==
    [][ ( /\ Called
          /\ last'.op = "label"
          /\ Expands(last'.call)
          /\ last'.raised )
            => RegistrationUnchanged(last'.menu) ]_vars

\* the keys of the call's mapping that no extraction or resolution consumes
Leftover(c) ==
    {k \in Keys(c.call.kw) :
        /\ k \notin {AttributeKeys[i] : i \in 1..Len(AttributeKeys)}
        /\ c.op = "image" => k \notin ImageInvalidKeys}

\* a call of a factory that forwards no key: label, image, and button with
\* accept_kwargs = False
NonForwarding(c) ==
    c.op \in {"label", "image"} \/ (c.op = "button" /\ ~c.call.accept_kwargs)

-----------------------------------------------------------------------------
(* Claims about the attribute resolver (checked under SpecResolver).       *)

\* the resolver returned a bundle
Resolved_ok == rstate \in {"returned", "checked", "rejected"}

\* C8 (as stated): for every style key of the bundle, a key absent from the
\* caller's mapping resolves to the Theme's default, and a key the caller
\* supplied with an accepted value resolves to the caller's value.
C8_AsStated ==
    Resolved_ok =>
        \A i \in 1..Len(AttributeKeys) :
            LET k == AttributeKeys[i]
            IN  attributes[k] = IF HasKey(kwargs0, k)
                                THEN Get(kwargs0, k)
                                ELSE ThemeDefault(theme, k)

\* the value a key is resolved from: the caller's if supplied, else the Theme's
C8_Source(k) ==
    IF HasKey(kwargs0, k) THEN Get(kwargs0, k) ELSE ThemeDefault(theme, k)

\* the widget's own background resolves to a flat colour
C8_FlatBackground ==
    C8_Source("background_color") # NoneV
        /\ C8_Source("background_color").t # "BaseImage"

\* C8 (amended): for every style key other than font_antialias the bundle
\* holds the caller's value if supplied and the Theme's default otherwise,
\* after three normalisations: a None selection_effect becomes NoneSelection,
\* font_name is stored as its string, and a None font_background_color
\* becomes the menu's flat background colour when the Theme derives it from
\* the menu and the widget's background is not a flat colour.  font_antialias
\* always holds the Theme's value.
C8_Resolution ==
    Resolved_ok =>
        \A i \in 1..Len(AttributeKeys) :
            LET k == AttributeKeys[i]
                x == C8_Source(k)
            IN  attributes[k] =
                    CASE k = "font_antialias" -> theme.widget_font_antialias
                      [] k = "selection_effect" ->
                            IF x = NoneV THEN NoneSelection ELSE x
                      [] k = "font_name" -> Str(x.v[1])
                      [] k = "font_background_color" ->
                            IF /\ x = NoneV
                               /\ theme.widget_font_background_color_from_menu
                               /\ ~C8_FlatBackground
                               /\ theme.background_color.t = "tuple"
                            THEN theme.background_color
                            ELSE x
                      [] OTHER -> x

\* C8 witness: a bundle was returned in which a supplied border_width
\* overrides the Theme's and the absent align is the Theme's
C8_Witness ==
    /\ rstate = "returned"
    /\ HasKey(kwargs0, "border_width")
    /\ attributes["border_width"] = IntV(3)
    /\ attributes["border_width"] # theme.widget_border_width
    /\ ~HasKey(kwargs0, "align")
    /\ attributes["align"] = theme.widget_alignment

\* C9: after a successful resolution the mapping holds none of the keys the
\* resolver consumed (popped), and every item whose key is not a style key
\* is still in the mapping with its original value.
C9_ConsumedKeysRemoved ==
    Resolved_ok =>
        /\ \A i \in 1..Len(PopOrder) : ~HasKey(kwargs, PopOrder[i])
        /\ \A i \in 1..Len(kwargs0) :
              kwargs0[i][1] \notin {AttributeKeys[j] : j \in 1..Len(AttributeKeys)}
                  => /\ HasKey(kwargs, kwargs0[i][1])
                     /\ Get(kwargs, kwargs0[i][1]) = kwargs0[i][2]

\* C9 witness: a mapping with a style key and an unknown key was resolved,
\* and only the unknown key is left
C9_Witness ==
    /\ rstate = "returned"
    /\ HasKey(kwargs0, "font_size")
    /\ HasKey(kwargs0, "foo")
    /\ kwargs = <<(<<"foo", IntV(42)>>)>>

-----------------------------------------------------------------------------
(* Claims about what the factories forward (checked under Spec).           *)

\* the items of the call's mapping whose key is not a style key
LeftoverItems(c) ==
    SelectSeq(c.call.kw,
              LAMBDA item : item[1] \notin {AttributeKeys[i] : i \in 1..Len(AttributeKeys)})

\* C11 (as stated): after every button() call, for every action kind and both
\* values of accept_kwargs, each key of the mapping that is not a style key
\* was forwarded to the action or the call raised; a callable action with
\* accept_kwargs = True received exactly those items; with accept_kwargs =
\* False nothing was forwarded and a leftover key made the call raise.
C11_AsStated ==
    last.op = "button" =>
        /\ \A k \in Keys(LeftoverItems(last)) : HasKey(last.fwd, k) \/ last.raised
        /\ (last.call.action.t = "callable" /\ last.call.accept_kwargs /\ ~last.raised)
               => last.fwd = LeftoverItems(last)
        /\ ~last.call.accept_kwargs
               => /\ last.fwd = <<>>
                  /\ LeftoverItems(last) # <<>> => last.raised

-----------------------------------------------------------------------------
(* Claims about label() (checked under SpecLabel).                         *)

\* the positions of the line breaks of a title
Breaks(title) == {i \in 1..Len(title) : title[i] = "\n"}

\* the position of the j-th line break of a title
BreakAt(title, j) ==
    CHOOSE p \in Breaks(title) : Cardinality({q \in Breaks(title) : q < p}) = j - 1

\* the i-th of the lines of a title, 1 <= i <= number of line breaks + 1
Line(title, i) ==
    SubSeq(title,
           IF i = 1 THEN 1 ELSE BreakAt(title, i - 1) + 1,
           IF i = Cardinality(Breaks(title)) + 1 THEN Len(title)
           ELSE BreakAt(title, i) - 1)

\* id starts with base
HasBase(id, base) == Len(id) >= Len(base) /\ SubSeq(id, 1, Len(base)) = base

\* C12: a label() call with max_char = 0 whose title holds k >= 2 lines
\* separated by line breaks, when it returns, returns a list of exactly k
\* Labels, the last k widgets of the container's sequence in line order; the
\* i-th has the ID X + '+' + i and was built with the text of the i-th line,
\* where X is the label_id passed or, when label_id is empty, one fresh base
\* ID shared by the k derived IDs (no other widget's ID starts with it).
C12_SplitLabels ==
    ( /\ last.op = "label"
      /\ last.call.max_char = 0
      /\ Breaks(last.call.title) # {}
      /\ ~last.raised )
        => LET k == Cardinality(Breaks(last.call.title)) + 1
               ws == menus[last.menu]._widgets
               n == Len(ws)
               X == IF last.call.id # <<>> THEN last.call.id
                    ELSE SubSeq(heap[last.ret[1]].id, 1,
                                Len(heap[last.ret[1]].id) - 1)
           IN  /\ Len(last.ret) = k
               /\ n >= k
               /\ X # <<>>
               /\ \A i \in 1..k :
                     /\ ws[n - k + i] = last.ret[i]
                     /\ heap[last.ret[i]].id = Append(X, i)
                     /\ last.texts[i] = Line(last.call.title, i)
               /\ last.call.id = <<>> =>
                     \A h \in 1..Len(heap) :
                         HasBase(heap[h].id, X) => \E i \in 1..k : last.ret[i] = h

\* C12 witness: label('b\n\na', max_char=0) without a label_id returned three
\* Labels, the second one built with the empty line
C12_Witness ==
    /\ last.op = "label" /\ ~last.raised
    /\ last.call.max_char = 0
    /\ last.call.id = <<>>
    /\ last.call.title = <<"b", "\n", "\n", "a">>
    /\ Len(last.ret) = 3
    /\ last.texts = << <<"b">>, <<>>, <<"a">> >>

-----------------------------------------------------------------------------
(* Claims about single factories (checked under Spec).                     *)

\* the call recorded in last' is one nothing but the factory's own checks can
\* stop: the resolver accepts its mapping, its ID is not in the menu, and the
\* widget class accepts what it is given
Benign ==
    /\ ~FilterWidgetAttributes(theme, last'.call.kw).raised
    /\ last'.call.id \notin MenuIds(menus, heap, last'.menu)
    /\ last'.call.ext_ok

\* this step registers exactly one new widget, the one returned, in the menu
\* of the call
RegistersOne ==
    /\ ~last'.raised
    /\ Len(heap') = Len(heap) + 1
    /\ last'.ret = <<Len(heap')>>
    /\ heap'[Len(heap')].id = last'.call.id
    /\ heap'[Len(heap')].menu = last'.menu
    /\ menus'[last'.menu]._widgets = Append(menus[last'.menu]._widgets, Len(heap'))
    /\ menus'[last'.menu].added_widgets = menus[last'.menu].added_widgets + 1

\* C13: text_input with password = True and a default other than '' raises
\* before a widget is constructed and leaves the containers unchanged; with
\* password = True and default '' the password and type checks never raise
\* and a benign call registers exactly one widget; with password = False and
\* a str, int or float default the same holds.
C13_PasswordDefault ==
    [][ (Called /\ last'.op = "text_input") =>
          LET c == last'.call IN
          /\ (c.password /\ c.default # Str(0))
                => /\ last'.raised
                   /\ heap' = heap
                   /\ menus' = menus
          /\ ( \/ c.password /\ c.default = Str(0)
               \/ ~c.password /\ c.default.t \in {"str", "int", "float"} )
                => /\ last'.raised => last'.step \notin {"extract", "password"}
                   /\ Benign => RegistersOne
      ]_vars

\* C13 witness: a menu holds one widget, and a password input with default
\* 'e' was refused at the password check
C13_Witness ==
    /\ last.op = "text_input" /\ last.call.password
    /\ last.call.default = Str(5)
    /\ last.raised /\ last.step = "password"
    /\ Len(menus[1]._widgets) = 1 /\ Len(heap) = 1

-----------------------------------------------------------------------------
(* Claims about vertical_margin() and image() (checked under SpecThemed).  *)

\* the value the bundle holds for a style key the call does not supply, bg
\* being the widget's background_color: the Theme's default, as the resolver
\* stores it (see C8 and C20)
Unsupplied(k, bg) ==
    LET x == ThemeDefault(theme, k)
    IN  CASE k = "selection_effect" -> IF x = NoneV THEN NoneSelection ELSE x
          [] k = "font_name" -> Str(x.v[1])
          [] k = "font_background_color" ->
                IF /\ x = NoneV
                   /\ theme.widget_font_background_color_from_menu
                   /\ (bg = NoneV \/ bg.t = "BaseImage")
                   /\ theme.background_color.t = "tuple"
                THEN theme.background_color
                ELSE x
          [] OTHER -> x

\* C14: vertical_margin raises for a margin <= 0 and then registers nothing
\* (no widget is built, the containers are unchanged); for a margin > 0 and
\* an ID not in the menu it registers exactly one widget, whose bundle holds
\* (0, margin) as margin and the Theme's default for every other key.
C14_VerticalMargin ==
    [][ (Called /\ last'.op = "vertical_margin" /\ IsNumber(last'.call.margin)) =>
          LET x == last'.call.margin.v[1] IN
          /\ x <= 0 => /\ last'.raised
                       /\ heap' = heap
                       /\ menus' = menus
          /\ (x > 0 /\ last'.call.id \notin MenuIds(menus, heap, last'.menu))
                => /\ RegistersOne
                   /\ attributes'["margin"] = Tup(<<0, x>>)
                   /\ \A i \in 1..Len(AttributeKeys) :
                         AttributeKeys[i] # "margin" =>
                             attributes'[AttributeKeys[i]]
                                 = Unsupplied(AttributeKeys[i],
                                              theme.widget_background_color)
      ]_vars

\* C14 witness: vertical_margin(5) registered a widget with margin (0, 5)
\* under a Theme whose own margin is another one
C14_Witness ==
    /\ last.op = "vertical_margin" /\ ~last.raised
    /\ last.call.margin = IntV(5)
    /\ attributes["margin"] = Tup(<<0, 5>>)
    /\ theme.widget_margin # Tup(<<0, 5>>)
    /\ Len(menus[1]._widgets) = 1

\* C17: image() discards font_background_color, font_color, font_name,
\* font_size, shadow, shadow_color, shadow_position and shadow_offset before
\* resolution: no value supplied for them, accepted by the resolver or not, is
\* the cause of an error (a call that supplies nothing else can only be
\* stopped by its ID), none reaches the bundle, which holds for them what it
\* holds when they are not supplied; a key that is neither one of them nor a
\* style key still makes the call raise.
C17_ImageDiscards ==
    last.op = "image" =>
        LET D == { "font_background_color", "font_color", "font_name",
                   "font_size", "shadow", "shadow_color", "shadow_position",
                   "shadow_offset" }
            kw == last.call.kw
            bg == GetOr(kw, "background_color", theme.widget_background_color)
        IN  /\ last.raised => last.err \notin D
            /\ (last.raised /\ Keys(kw) \subseteq D) => last.step = "bind"
            /\ ~last.raised => \A k \in D : attributes[k] = Unsupplied(k, bg)
            /\ (\E k \in Keys(kw) :
                    k \notin D \cup {PopOrder[i] : i \in 1..Len(PopOrder)})
                  => last.raised

\* C17 witness: image() was given a shadow colour, position and offset the
\* resolver rejects; the image is registered and its bundle holds the Theme's
C17_Witness ==
    /\ last.op = "image" /\ ~last.raised
    /\ GetOr(last.call.kw, "shadow_offset", NoneV) = Str(1)
    /\ GetOr(last.call.kw, "shadow_color", NoneV) = Tup(<<0, 0, 256>>)
    /\ attributes["shadow_offset"] = theme.widget_shadow_offset
    /\ attributes["shadow_color"] = theme.widget_shadow_color
    /\ Len(menus[1]._widgets) = 1

-----------------------------------------------------------------------------
(* Claims about binding (checked under SpecBinding).                       *)

\* the positions at which widget h stands in the sequence of menu m
Places(M, m, h) == {i \in 1..Len(M[m]._widgets) : M[m]._widgets[i] = h}

-----------------------------------------------------------------------------
(* Claims about the forwarding factories (checked under Spec).             *)

\* the keys a forwarding factory takes for the widget kind, as documented
KindKeys(op) ==
    CASE op = "toggle_switch" ->
            { "infinite", "slider_color", "slider_thickness", "state_color",
              "state_text_font_color", "state_text_font_size",
              "switch_border_color", "switch_border_width", "switch_height",
              "switch_margin", "width" }
      [] op = "text_input" -> { "input_underline_vmargin" }
      [] op = "color_input" ->
            { "dynamic_width", "input_underline_vmargin",
              "previsualization_margin", "previsualization_width" }
      [] OTHER -> {}

\* C16: selector, toggle_switch, text_input and color_input never raise the
\* unrecognised-parameter error, and the mapping a successful call forwards
\* to the widget constructor is exactly the caller's mapping, in its order,
\* minus every style key the resolver recognises (the keys it pops:
\* font_antialias is not one of them) and minus the keys of the widget kind.
C16_ForwardedMapping ==
    last.op \in {"selector", "toggle_switch", "text_input", "color_input"} =>
        /\ last.step # "kwargs"
        /\ ~last.raised =>
              last.fwd = SelectSeq(last.call.kw,
                            LAMBDA item :
                                /\ item[1] \notin {PopOrder[i] : i \in 1..Len(PopOrder)}
                                /\ item[1] \notin KindKeys(last.op))

\* C16 witness: text_input was given a style key, font_antialias, its own
\* input_underline_vmargin, width and an unknown key, and forwarded
\* font_antialias, width and the unknown key
C16_Witness ==
    /\ last.op = "text_input" /\ ~last.raised
    /\ Keys(last.call.kw) = { "font_size", "font_antialias",
                              "input_underline_vmargin", "width", "foo" }
    /\ Keys(last.fwd) = { "font_antialias", "width", "foo" }

-----------------------------------------------------------------------------
(* Claims about the validations of the resolver (checked under             *)
(* SpecResolver).                                                          *)

\* the colour-valued style keys
ColourKeys ==
    { "background_color", "border_color", "font_background_color",
      "font_color", "readonly_color", "readonly_selected_color",
      "selection_color", "shadow_color" }

\* the value x is no well-formed colour, nor a None or an image where the key
\* permits one
IllFormed(k, x) ==
    /\ ~IsColor(x)
    /\ ~(k \in {"background_color", "font_background_color"} /\ x = NoneV)
    /\ ~(k = "background_color" /\ x.t = "BaseImage")

\* C18 (as stated): once the resolver has run on a mapping that gives a
\* colour-valued style key an ill-formed value, it has raised.
C18_AsStated ==
    rstate # "init" =>
        \A k \in ColourKeys :
            (HasKey(kwargs0, k) /\ IllFormed(k, Get(kwargs0, k)))
                => rstate = "raised"

\* the keys of C19
ShapeKeys ==
    {"margin", "padding", "background_inflate", "border_inflate", "border_width"}

\* every component of x is non-negative
NonNegative(x) == \A i \in 1..Len(x.v) : x.v[i] >= 0

\* a scalar number, or a tuple of 2 or 4 elements
BoxShape(x) == IsNumber(x) \/ (x.t = "tuple" /\ Len(x.v) \in {2, 4})

\* what C19 says the resolver accepts
C19_Stated(k, x) ==
    CASE k = "margin" -> BoxShape(x) /\ NonNegative(x)
      [] k = "padding" -> BoxShape(x)
      [] OTHER -> NonNegative(x)

C19_Accepted(k, x) ==
    CASE k = "margin" -> x.t = "tuple" /\ Len(x.v) = 2
      [] k = "padding" -> IsNumber(x) \/ x.t = "tuple"
      [] k = "border_width" -> IsInt(x) /\ NonNegative(x)
      [] OTHER -> x.t \in {"tuple", "list"} /\ Len(x.v) = 2 /\ NonNegative(x)

C20_AsStated ==
    Resolved_ok =>
        attributes["font_background_color"] =
            IF /\ ~HasKey(kwargs0, "font_background_color")
               /\ theme.widget_font_background_color_from_menu
               /\ (attributes["background_color"] = NoneV
                      \/ attributes["background_color"].t = "BaseImage")
            THEN theme.background_color
            ELSE GetOr(kwargs0, "font_background_color",
                       theme.widget_font_background_color)

\* C20 (amended): let x be the caller's font_background_color if the key is
\* in the mapping, else the Theme's widget_font_background_color.  The
\* resolved value is the Theme's background colour when x is None, the Theme
\* derives it from the menu, the widget's resolved background is not a flat
\* colour and the Theme's background is a colour tuple; otherwise it is x.
C20_FontBackground ==
    Resolved_ok =>
        LET x == GetOr(kwargs0, "font_background_color",
                       theme.widget_font_background_color)
        IN  attributes["font_background_color"] =
                IF /\ x = NoneV
                   /\ theme.widget_font_background_color_from_menu
                   /\ (attributes["background_color"] = NoneV
                          \/ attributes["background_color"].t = "BaseImage")
                   /\ theme.background_color.t = "tuple"
                THEN theme.background_color
                ELSE x

\* C20 witness: the caller passed an image as background and no font
\* background; the font background is the menu's flat colour
C20_Witness ==
    /\ rstate = "returned"
    /\ ~HasKey(kwargs0, "font_background_color")
    /\ HasKey(kwargs0, "background_color")
    /\ attributes["background_color"].t = "BaseImage"
    /\ theme.widget_font_background_color = NoneV
    /\ attributes["font_background_color"] = theme.background_color
    /\ theme.background_color.t = "tuple"

-----------------------------------------------------------------------------
(* Claims about toggle_switch() (checked under SpecThemed).                *)

\* C21: toggle_switch accepts a default only in {0, 1, False, True}.  Any
\* other default makes the call raise at its first check, before the mapping
\* is resolved and before a widget is built, so that the containers are
\* unchanged; a call with an accepted default never raises at that check, and
\* when it succeeds it registers exactly one widget whose default is the
\* value passed.
C21_ToggleDefault ==
    [][ (Called /\ last'.op = "toggle_switch") =>
          LET d == last'.call.default IN
          IF d \in {IntV(0), IntV(1), BoolV(FALSE), BoolV(TRUE)}
          THEN /\ last'.raised => last'.step # "extract"
               /\ (~FilterWidgetAttributes(theme, last'.call.kw).raised
                      /\ last'.call.id \notin MenuIds(menus, heap, last'.menu))
                     => /\ RegistersOne
                        /\ last'.default = d
          ELSE /\ last'.raised
               /\ last'.step = "extract"
               /\ heap' = heap
               /\ menus' = menus
      ]_vars

\* C21 witness: toggle_switch with default 2 and a font_size the resolver
\* rejects raised at the check of the default, in a menu that holds a switch
\* registered with default True
C21_Witness ==
    /\ last.op = "toggle_switch" /\ last.raised /\ last.step = "extract"
    /\ last.call.default = IntV(2)
    /\ last.call.kw # <<>>
    /\ Len(menus[1]._widgets) = 1

\* ---- C22 ----------------------------------------------------------------

\* the fields of a widget record that no registration may change
Own(w) == [id |-> w.id, is_selectable |-> w.is_selectable, to_menu |-> w.to_menu]

\* C22: a generic_widget call on a widget that has no menu and whose ID is
\* not used in the container succeeds, also for a Button that opens a
\* submenu, for which a warning is emitted. A successful call appends the
\* widget at the end of the container, sets its back-reference and its
\* input controls, and changes no other widget. With configure_defaults
\* False the style of the widget is what it was before the call and no Theme
\* bundle is applied; with configure_defaults True the widget is styled with
\* the bundle the resolver builds from an empty mapping.
C22_GenericWidgetBinding ==
    [][ (Called /\ last'.op = "generic_widget") =>
          LET h == last'.call.widget
              m == last'.menu
          IN  /\ (heap[h].menu = 0 /\ heap[h].id \notin MenuIds(menus, heap, m))
                    => ~last'.raised
              /\ ~last'.raised =>
                    /\ menus'[m]._widgets = Append(menus[m]._widgets, h)
                    /\ heap'[h].menu = m
                    /\ heap'[h].controls
                    /\ Own(heap'[h]) = Own(heap[h])
                    /\ Len(heap') = Len(heap)
                    /\ \A g \in 1..Len(heap) : g # h => heap'[g] = heap[g]
                    /\ last'.warned = heap[h].to_menu
                    /\ IF last'.call.configure_defaults
                       THEN /\ heap'[h].styled
                            /\ attributes' = FilterWidgetAttributes(theme, <<>>).attributes
                       ELSE /\ heap'[h].styled = heap[h].styled
                            /\ attributes' = BlankBundle
      ]_vars

\* C22 witness: a Button that opens a submenu was registered as the second
\* widget of its container by generic_widget(configure_defaults=False): the
\* warning was emitted and the Button carries no Theme style
C22_Witness ==
    /\ last.op = "generic_widget" /\ ~last.raised
    /\ ~last.call.configure_defaults
    /\ last.warned
    /\ ~heap[last.call.widget].styled
    /\ heap[last.call.widget].controls
    /\ menus[last.menu]._widgets = <<1, last.call.widget>>

\* ---- C23 ----------------------------------------------------------------

\* the statements of _append_widget in the order they may follow each other
Order ==
    { <<"append", "test">>, <<"test", "select">>, <<"test", "count">>,
      <<"select", "callback">>, <<"callback", "index">>, <<"index", "count">>,
      <<"count", "surface">>, <<"surface", "render">>,
      <<"render", "returned">> }

\* C23: every statement the running activation of _append_widget executes
\* is followed by the next one of the order append, select if applicable,
\* count, invalidate, render. The append puts the widget at the end of the
\* sequence and no other statement changes the sequence; only the select
\* statement changes a selected state and only the index statement changes
\* the index; the counter grows by exactly 1 at the count statement and
\* nowhere else; the surface is None after the invalidate statement; the
\* render is requested exactly once, as the last statement. Whenever no
\* registration is in progress, the insertion counter and the number of
\* renders requested equal the length of the widget sequence.
C23_RegistrationOrder ==
    [][ LET M == menus[AppendMenu]
            N == menus'[AppendMenu]
        IN  /\ (frames # <<>> /\ Len(frames') = Len(frames) /\ frames' # frames) =>
                  LET f == Top
                      g == frames'[Len(frames')]
                  IN  /\ <<f.pc, g.pc>> \in Order
                      /\ g.widget = f.widget
                      /\ N._widgets = IF f.pc = "append"
                                      THEN Append(M._widgets, f.widget)
                                      ELSE M._widgets
                      /\ f.pc # "select" => heap' = heap
                      /\ f.pc = "select" =>
                            heap' = [heap EXCEPT ![f.widget].selected = TRUE]
                      /\ f.pc # "index" => N._index = M._index
                      /\ N.added_widgets =
                            M.added_widgets + (IF f.pc = "count" THEN 1 ELSE 0)
                      /\ f.pc = "surface" => N._widgets_surface = "None"
                      /\ f.pc # "surface" => N._widgets_surface = M._widgets_surface
                      /\ renders' = renders + (IF f.pc = "render" THEN 1 ELSE 0)
            /\ (frames # <<>> /\ Len(frames') # Len(frames)) =>
                  /\ menus' = menus
                  /\ renders' = renders
            /\ frames' = <<>> =>
                  /\ N.added_widgets = Len(N._widgets)
                  /\ renders' = Len(N._widgets)
      ]_vars

\* C23 witness: a registration that selected its widget has returned, as
\* the second of a fresh menu: two widgets, counter 2, two renders, no surface
C23_Witness ==
    /\ Len(frames) = 1 /\ Top.pc = "returned" /\ Top.selects
    /\ Len(menus[AppendMenu]._widgets) = 2
    /\ menus[AppendMenu]._index = 1
    /\ menus[AppendMenu].added_widgets = 2
    /\ menus[AppendMenu]._widgets_surface = "None"
    /\ renders = 2

\* ---- C24 ----------------------------------------------------------------

\* the handles a call has appended to the widgets of menu m
NewHandles(m) ==
    {menus'[m]._widgets[i] :
        i \in (Len(menus[m]._widgets) + 1)..Len(menus'[m]._widgets)}

\* C24: a factory call that registers only widgets that are not selectable
\* leaves the selection index of its menu and the selected state of every
\* widget as they were, and the widgets it registers are not selected. After
\* every call, a menu that holds no selectable widget has index -1, and an
\* index that is not negative is a position of the sequence, whose widget is
\* selectable and selected.
C24_NonSelectable ==
    [][ /\ (Called /\ NewHandles(last'.menu) # {}
              /\ \A h \in NewHandles(last'.menu) : ~heap'[h].is_selectable) =>
                /\ menus'[last'.menu]._index = menus[last'.menu]._index
                /\ \A h \in 1..Len(heap) : heap'[h].selected = heap[h].selected
                /\ \A h \in NewHandles(last'.menu) : ~heap'[h].selected
        /\ \A m \in Menus :
              LET N == menus'[m]
              IN  /\ (\A i \in 1..Len(N._widgets) :
                          ~heap'[N._widgets[i]].is_selectable) => N._index = -1
                  /\ N._index >= 0 =>
                        /\ N._index < Len(N._widgets)
                        /\ heap'[N._widgets[N._index + 1]].is_selectable
                        /\ heap'[N._widgets[N._index + 1]].selected
      ]_vars

\* C24 witness: a vertical margin was registered first and a none widget
\* second, and the menu has no selection
C24_Witness ==
    /\ last.op = "none_widget" /\ ~last.raised
    /\ Len(menus[last.menu]._widgets) = 2
    /\ ~heap[1].is_selectable /\ ~heap[2].is_selectable
    /\ menus[last.menu]._index = -1
    /\ ~heap[1].selected /\ ~heap[2].selected

\* ---- C25 ----------------------------------------------------------------

\* the call needs no wrapping: max_char is 0, or the title is not longer
\* than max_char (for max_char -1, than the width the probe gives)
Fits(call) ==
    LET mc == IF call.max_char < 0 THEN AutoMaxChar(call.title) ELSE call.max_char
    IN  mc = 0 \/ Len(call.title) <= mc

\* C25: a label() call that returns, returns a single widget exactly when
\* its title holds no line break and needs no wrapping; otherwise it returns
\* a list whose elements are Labels, none of them a list. The widgets the
\* call appended to the menu are the widgets returned, in that order: one for
\* a single widget, as many as the list is long for a list.
C25_SingleOrList ==
    [][ (Called /\ last'.op = "label" /\ ~last'.raised) =>
          LET c == last'.call
              old == menus[last'.menu]._widgets
              new == menus'[last'.menu]._widgets
          IN  /\ last'.nest = 0 <=> (~HasNewline(c.title) /\ Fits(c))
              /\ last'.nest <= 1
              /\ last'.nest = 0 => Len(last'.ret) = 1
              /\ new = old \o last'.ret
      ]_vars

\* C25 witness: 'ab\nc' with max_char 1 returned a list of three Labels:
\* the two that wrap the first line, then the second line
C25_Witness ==
    /\ last.op = "label" /\ ~last.raised
    /\ last.call.title = <<"a", "b", "\n", "c">>
    /\ last.call.max_char = 1
    /\ last.nest = 1
    /\ Len(last.ret) = 3
    /\ last.texts = << <<"a">>, <<"b">>, <<"c">> >>

\* ---- C26 ----------------------------------------------------------------

\* a label() call with max_char -1 whose title holds no line break gets as
\* far as building a Label: the title fits, or the base ID is free and the
\* title wraps into at least one line
BuildsLabel(call, ids) ==
    \/ Fits(call)
    \/ /\ call.id \notin ids
       /\ Wrap(call.title, AutoMaxChar(call.title)) # <<>>

\* C26: for every label() call with max_char -1, the widgets the menu gains
\* are counted one by one in the insertion counter and no widget outside the
\* menu's sequence is selected, so that the probe is neither appended,
\* counted nor selected; a call that returns has appended exactly the Labels
\* it returns, the first of them is the selected widget when it is
\* selectable and nothing was selected before, and a style key of the
\* caller's mapping is in the bundle the Labels were configured with. When
\* the mapping holds an unknown key and the call gets as far as building a
\* Label, it raises the error of that key.
C26_ProbeLabel ==
    [][ (Called /\ last'.op = "label" /\ last'.call.max_char = -1) =>
          LET c == last'.call
              M == menus[last'.menu]
              N == menus'[last'.menu]
          IN  /\ N.added_widgets - M.added_widgets = Len(N._widgets) - Len(M._widgets)
              /\ \A h \in 1..Len(heap') :
                    heap'[h].selected => \E i \in 1..Len(N._widgets) : N._widgets[i] = h
              /\ ~last'.raised =>
                    /\ N._widgets = M._widgets \o last'.ret
                    /\ Len(heap') = Len(heap) + Len(last'.ret)
                    /\ (M._index < 0 /\ last'.ret # <<>>
                          /\ heap'[last'.ret[1]].is_selectable) =>
                            /\ N._index = Len(M._widgets)
                            /\ heap'[last'.ret[1]].selected
                    /\ (HasKey(c.kw, "font_size") /\ last'.ret # <<>>) =>
                            attributes'["font_size"] = Get(c.kw, "font_size")
              /\ (HasKey(c.kw, "foo")
                    /\ (HasNewline(c.title)
                          \/ BuildsLabel(c, MenuIds(menus, heap, last'.menu)))) =>
                    /\ last'.raised
                    /\ last'.step = "kwargs"
                    /\ last'.err = "foo"
      ]_vars

\* C26 witness: 'aa bb' with max_char -1 and font_size 20 was wrapped into
\* two selectable Labels in an empty menu: the first is selected, both are
\* counted, and the bundle holds the caller's font size
C26_Witness ==
    /\ last.op = "label" /\ ~last.raised
    /\ last.call.max_char = -1
    /\ last.call.title = <<"a", "a", " ", "b", "b">>
    /\ last.texts = << <<"a", "a">>, <<"b", "b">> >>
    /\ menus[last.menu]._widgets = <<1, 2>>
    /\ menus[last.menu]._index = 0
    /\ menus[last.menu].added_widgets = 2
    /\ heap[1].selected
    /\ attributes["font_size"] = IntV(20)

\* ---- C27 ----------------------------------------------------------------

\* the widgets of the menu that are selected, and the position of a widget
\* in the sequence (0-based)
SelectedWidgets ==
    {h \in 1..Len(heap) :
        /\ heap[h].selected
        /\ \E i \in 1..Len(menus[AppendMenu]._widgets) :
              menus[AppendMenu]._widgets[i] = h}
PositionOf(h) ==
    (CHOOSE i \in 1..Len(menus[AppendMenu]._widgets) :
        menus[AppendMenu]._widgets[i] = h) - 1

\* the registration that has just returned selected its widget w, the index
\* is the position of w and w is the only selected widget
SelectedAlone ==
    /\ menus[AppendMenu]._index = PositionOf(Top.widget)
    /\ SelectedWidgets = {Top.widget}

\* C27 as stated: whenever a registration that selected its widget returns,
\* the index is the position of that widget and it is the only selected
\* widget, also when its select callback registered a widget meanwhile
C27_AsStated ==
    (At("returned") /\ Top.selects) => SelectedAlone

\* C27: when a registration that selected its widget returns, and no select
\* callback has registered a widget in the same menu while it was in
\* progress (the registration is not itself made by such a callback, and its
\* own callback registered nothing), the index is the position of that
\* widget and it is the only selected widget.
C27_SelectionOnReturn ==
    (At("returned") /\ Top.selects /\ Len(frames) = 1 /\ ~Top.nested)
        => SelectedAlone

\* C27 witness: the second widget of the menu, the first selectable one, was
\* registered with a callback that registered nothing, and has returned
C27_Witness ==
    /\ At("returned") /\ Top.selects /\ Len(frames) = 1 /\ ~Top.nested
    /\ Top.widget = 2
    /\ menus[AppendMenu]._widgets = <<1, 2>>
    /\ menus[AppendMenu]._index = 1
    /\ ~heap[1].is_selectable
    /\ heap[2].selected

\* ---- C28 ----------------------------------------------------------------

\* C28 as stated: after a generic_widget call, successful or failed, the
\* widget passed has the menu of the call as its back-reference if and only
\* if it is a member of that menu's widget sequence
C28_AsStated ==
    (last.op = "generic_widget") =>
        (heap[last.call.widget].menu = last.menu
            <=> Places(menus, last.menu, last.call.widget) # {})

\* ---- C29 ----------------------------------------------------------------

\* the call splits its title at line breaks and wraps at least one line
SplitsAndWraps(call) ==
    /\ HasNewline(call.title)
    /\ call.max_char > 0
    /\ \E i \in 1..(Cardinality(Breaks(call.title)) + 1) :
          Len(Line(call.title, i)) > call.max_char

\* the base ID the call works with: the caller's, or a fresh one
BaseOf(call) == IF call.id = <<>> THEN uuid4(heap) ELSE call.id

\* the Labels returned have pairwise distinct IDs derived from the base ID
\* and stand at the end of the sequence in the order of their texts
DistinctDerived ==
    /\ \A i, j \in 1..Len(last'.ret) :
          i # j => heap'[last'.ret[i]].id # heap'[last'.ret[j]].id
    /\ \A i \in 1..Len(last'.ret) :
          /\ HasBase(heap'[last'.ret[i]].id, BaseOf(last'.call))
          /\ heap'[last'.ret[i]].id # BaseOf(last'.call)
    /\ menus'[last'.menu]._widgets = menus[last'.menu]._widgets \o last'.ret

\* a call in a menu none of whose IDs is derived from the base ID does not
\* fail with a duplicate-ID error
NoSiblingClash ==
    (\A id \in MenuIds(menus, heap, last'.menu) :
        ~HasBase(id, BaseOf(last'.call)) \/ id = BaseOf(last'.call))
      => ~(last'.raised /\ last'.step \in {"bind", "baseid"})

\* a call refused by the wrap branch because its base ID is in use has
\* registered nothing
BaseIdRejectsFirst ==
    (last'.raised /\ last'.step = "baseid") =>
        /\ menus' = menus
        /\ heap' = heap

\* C29 as stated: a label() call with max_char > 0 that splits and wraps
\* registers Labels with pairwise distinct IDs derived from its base ID, in
\* text order, does not fail on a duplicate ID because of its own Labels,
\* and, when its wrap branch finds the base ID it was given in use, is
\* rejected before anything is registered
C29_AsStated ==
    [][ (Called /\ last'.op = "label" /\ SplitsAndWraps(last'.call)) =>
          /\ ~last'.raised => DistinctDerived
          /\ NoSiblingClash
          /\ BaseIdRejectsFirst
      ]_vars

\* ---- C30 ----------------------------------------------------------------

\* the texts a label() call may pass through its wrap branch: the title, or
\* the lines of the title when it holds line breaks
WrapTexts(call) ==
    IF HasNewline(call.title)
    THEN {Split(call.title)[i] : i \in 1..Len(Split(call.title))}
    ELSE {call.title}

\* the max_char the call uses for a text: the one given, or the probe's
EffectiveMaxChar(call, text) ==
    IF call.max_char < 0 THEN AutoMaxChar(text) ELSE call.max_char

\* C30: every label() call with max_char >= -1 ends, and the label() calls
\* it makes are nested at most three deep. The lines the line-break branch
\* recurses on hold no line break, and every line the wrap branch recurses
\* on is no longer than max_char, so that the recursive call takes the
\* branch that builds one Label.
C30_LabelTerminates ==
    [][ (Called /\ last'.op = "label" /\ last'.call.max_char >= -1) =>
          LET c == last'.call
          IN  /\ \A i \in 1..Len(Split(c.title)) : ~HasNewline(Split(c.title)[i])
              /\ \A text \in WrapTexts(c) :
                    LET mc == EffectiveMaxChar(c, text)
                    IN  (mc > 0 /\ Len(text) > mc) =>
                            \A j \in 1..Len(Wrap(text, mc)) :
                                /\ Len(Wrap(text, mc)[j]) <= mc
                                /\ ~HasNewline(Wrap(text, mc)[j])
              /\ last'.depth \in 1..3
              /\ ~last'.raised =>
                    last'.depth = 1 + (IF HasNewline(c.title) THEN 1 ELSE 0)
                                    + (IF \E text \in WrapTexts(c) :
                                            LET mc == EffectiveMaxChar(c, text)
                                            IN  /\ mc > 0 /\ Len(text) > mc
                                                /\ Wrap(text, mc) # <<>>
                                       THEN 1 ELSE 0)
      ]_vars

\* C30 witness: 'c\nab' with max_char 1 has returned three Labels; the calls
\* were nested three deep: the call, the call for the line 'ab', and the
\* calls for 'a' and 'b'
C30_Witness ==
    /\ last.op = "label" /\ ~last.raised
    /\ last.call.title = <<"c", "\n", "a", "b">>
    /\ last.call.max_char = 1
    /\ last.depth = 3
    /\ last.texts = << <<"c">>, <<"a">>, <<"b">> >>

=============================================================================
